---------------------------- MODULE Spec2Model ----------------------------
(***************************************************************************)
(* A model of commit-assist (madebygrant/commit-assist): the command-line  *)
(* tool that turns staged git changes into a one-line commit message.      *)
(*                                                                         *)
(* Text is modelled at character level: a string is a sequence of          *)
(* one-character strings, so that the regular expressions, trim(),         *)
(* split(), includes() and replace() of the source are modelled by what    *)
(* they do to the characters.                                              *)
(*                                                                         *)
(* Specifications:                                                         *)
(*   Spec          main() of src/commit-assist.js (current variant)        *)
(*   SpecValidate  validatePromptTemplate on bounded templates             *)
(*   SpecFill      fillTemplate and the chained String.replace of the      *)
(*                 earlier variants on bounded templates                   *)
(*   SpecClean     the cleaning pipeline generateCommitMessage ->          *)
(*                 cleanAndFormatMessage on bounded raw model outputs      *)
(***************************************************************************)
EXTENDS Integers, Sequences, FiniteSets, TLC

(***************************************************************************)
(* Bounds of the model.                                                    *)
(***************************************************************************)
\* number of command-line words (a flag, or a flag with its value) in argv
MaxArgs == 2
\* number of 'regenerate' answers the modelled user gives in one run
MaxRegen == 1
\* number of stray pieces appended to a template under SpecValidate
MaxExtra == 1
\* number of pieces a template is built from under SpecFill
MaxPieces == 3
\* number of pieces the inner text of a raw model output is built from
MaxMsgPieces == 3
\* number of pieces a message given to the post-processor functions is built from
MaxFormatPieces == 3
\* number of lines of a diff text under SpecDiff
MaxDiffLines == 3
\* number of tokens of an argument list under SpecArgs
MaxTokens == 3

\* the greatest length of a long message
MaxLength == 95

(***************************************************************************)
(* Characters and character classes of the JavaScript regular expressions. *)
(***************************************************************************)
\* \s and String.prototype.trim(): the white space that occurs in the model
WhiteSpace == {" ", "\t", "\n", "\r"}

\* The backtick, which cannot be written in a string of this language: the
\* one character of the model that is not spelled by itself
Backtick == "backtick"

\* the quote characters of the cleaning regular expressions: single quote,
\* double quote and backtick
QuoteChars == {"'", "\"", Backtick}

LowerLetters ==
  <<"a","b","c","d","e","f","g","h","i","j","k","l","m",
    "n","o","p","q","r","s","t","u","v","w","x","y","z">>

UpperLetters ==
  <<"A","B","C","D","E","F","G","H","I","J","K","L","M",
    "N","O","P","Q","R","S","T","U","V","W","X","Y","Z">>

Digits == {"0","1","2","3","4","5","6","7","8","9"}

LowerSet == {LowerLetters[i] : i \in 1..26}

UpperSet == {UpperLetters[i] : i \in 1..26}

\* the class \w
WordChars == LowerSet \cup UpperSet \cup Digits \cup {"_"}

\* String.prototype.toLowerCase on one character
LowerChar(c) ==
  IF c \in UpperSet
    THEN LowerLetters[CHOOSE i \in 1..26 : UpperLetters[i] = c]
    ELSE c

ToLowerCase(s) == [i \in 1..Len(s) |-> LowerChar(s[i])]

(***************************************************************************)
(* String primitives.                                                      *)
(***************************************************************************)
\* the text of s from position i (1-based) to its end
From(s, i) == SubSeq(s, i, Len(s))

\* p occurs in s at position i
MatchAt(s, p, i) ==
  /\ i >= 1
  /\ i + Len(p) - 1 <= Len(s)
  /\ \A k \in 1..Len(p) : s[i + k - 1] = p[k]

StartsWith(s, p) == MatchAt(s, p, 1)

EndsWith(s, p) == MatchAt(s, p, Len(s) - Len(p) + 1)

\* the least element of a non-empty set of integers
Min(S) == CHOOSE x \in S : \A y \in S : x <= y

\* String.prototype.indexOf(p, i-1) + 1: the first position >= i where p
\* occurs in s, 0 when there is none
IndexOfFrom(s, p, i) ==
  LET hits == {k \in i..(Len(s) - Len(p) + 1) : MatchAt(s, p, k)}
  IN  IF hits = {} THEN 0 ELSE Min(hits)

\* String.prototype.includes
Includes(s, p) == IndexOfFrom(s, p, 1) > 0

\* the first position >= i of s whose character is not in class, the
\* position after the end of s when there is none
SkipWhile(s, class, i) ==
  IF \A k \in i..Len(s) : s[k] \in class
    THEN (IF i > Len(s) THEN i ELSE Len(s) + 1)
    ELSE CHOOSE k \in i..Len(s) :
           s[k] \notin class /\ \A j \in i..(k - 1) : s[j] \in class

\* the last position <= i of s whose character is not in class (0 if none)
SkipBackWhile(s, class, i) ==
  IF \A k \in 1..i : s[k] \in class
    THEN (IF i < 1 THEN i ELSE 0)
    ELSE CHOOSE k \in 1..i :
           s[k] \notin class /\ \A j \in (k + 1)..i : s[j] \in class

\* replace(/^[class]+/, "")
StripLeadingRun(s, class) == From(s, SkipWhile(s, class, 1))

\* replace(/[class]+$/, "")
StripTrailingRun(s, class) == SubSeq(s, 1, SkipBackWhile(s, class, Len(s)))

\* String.prototype.trim
Trim(s) == StripTrailingRun(StripLeadingRun(s, WhiteSpace), WhiteSpace)

\* replace(/^[quotes]+|[quotes]+$/g, empty): the run of quote characters
\* that starts the text and the run that ends it are removed
StripQuoteRuns(s) == StripTrailingRun(StripLeadingRun(s, QuoteChars), QuoteChars)

\* replace(/\s+/g, " "): a white space character that follows another one
\* is dropped, and each one that is kept becomes a blank
CollapseWhitespace(s) ==
  LET marked == [i \in 1..Len(s) |->
                   [c |-> s[i], runStart |-> (i = 1 \/ s[i - 1] \notin WhiteSpace)]]
      kept == SelectSeq(marked, LAMBDA p : p.c \notin WhiteSpace \/ p.runStart)
  IN  [k \in 1..Len(kept) |-> IF kept[k].c \in WhiteSpace THEN " " ELSE kept[k].c]

\* split("\n")[0]
FirstLine(s) ==
  LET nl == IndexOfFrom(s, <<"\n">>, 1)
  IN  IF nl = 0 THEN s ELSE SubSeq(s, 1, nl - 1)

RECURSIVE Flatten(_)
\* the pieces of a sequence of texts joined into one text
Flatten(pieces) ==
  IF pieces = <<>> THEN <<>> ELSE Head(pieces) \o Flatten(Tail(pieces))

\* the sequences of at most n elements of S
RECURSIVE SeqsUpTo(_, _)
SeqsUpTo(S, n) ==
  IF n = 0 THEN {<<>>}
  ELSE LET shorter == SeqsUpTo(S, n - 1)
       IN  shorter \cup {Append(q, x) : q \in shorter, x \in S}

\* an optional value of JavaScript: <<>> is undefined, <<v>> is the value v
Undefined == <<>>

Some(v) == <<v>>

IsDefined(o) == o # <<>>

\* truthiness of an optional string: defined and not the empty string
Truthy(o) == o # <<>> /\ o[1] # <<>>

(***************************************************************************)
(* parseArgs (src/commit-assist.js).                                       *)
(***************************************************************************)
HelpFlags == {<<"-", "-", "h", "e", "l", "p">>, <<"-", "h">>}

ContextFlags == {<<"-", "-", "c", "o", "n", "t", "e", "x", "t">>, <<"-", "c", "t", "x">>}

ConventionalFlags == {<<"-", "-", "c", "o", "n", "v", "e", "n", "t", "i", "o", "n", "a", "l", "-", "f", "o", "r", "m", "a", "t">>, <<"-", "c", "f">>}

TypeFlags == {<<"-", "-", "t", "y", "p", "e">>, <<"-", "t">>}

TicketFlags == {<<"-", "-", "t", "i", "c", "k", "e", "t", "i", "d">>, <<"-", "t", "i", "d">>}

\* the long form only
CopyFlagsLongOnly == {<<"-", "-", "c", "o", "p", "y">>}

CopyFlags == {<<"-", "-", "c", "o", "p", "y">>, <<"-", "c">>}

ModelFlags == {<<"-", "-", "m", "o", "d", "e", "l">>, <<"-", "m">>}

TemplateFlags == {<<"-", "-", "p", "r", "o", "m", "p", "t", "-", "t", "e", "m", "p", "l", "a", "t", "e">>, <<"-", "p", "t">>}

DebugFlags == {<<"-", "-", "d", "e", "b", "u", "g">>}

\* const result = {}: no option is set
EmptyArgs ==
  [context |-> Undefined, useAiConventional |-> FALSE,
   conventionalType |-> Undefined, ticketID |-> Undefined,
   autoCopy |-> FALSE, model |-> Undefined,
   promptTemplate |-> Undefined, debug |-> FALSE]

\* the token after position i unless it looks like a flag, "" otherwise
ValueAfterUnlessFlag(tokens, i) ==
  IF i + 1 <= Len(tokens) /\ ~StartsWith(tokens[i + 1], <<"-">>)
    THEN tokens[i + 1] ELSE <<>>

\* args[i + 1] || "": the token after position i, "" when there is none
ValueAfter(tokens, i) == IF i + 1 <= Len(tokens) THEN tokens[i + 1] ELSE <<>>

RECURSIVE ParseFrom(_, _, _)
\* the for loop of parseArgs from index i (1-based) with the options set so
\* far; help is TRUE when the scan reached showHelp(); process.exit(0)
ParseFrom(tokens, i, result) ==
  IF i > Len(tokens) THEN [help |-> FALSE, result |-> result]
  ELSE LET a == tokens[i]
           v == ValueAfter(tokens, i)
       IN  IF a \in HelpFlags THEN [help |-> TRUE, result |-> result]
           ELSE IF a \in ContextFlags
             THEN ParseFrom(tokens, i + 2, [result EXCEPT !.context = Some(v)])
           ELSE IF a \in ConventionalFlags
             THEN ParseFrom(tokens, i + 1, [result EXCEPT !.useAiConventional = TRUE])
           ELSE IF a \in TypeFlags
             THEN ParseFrom(tokens, i + 2, [result EXCEPT !.conventionalType = Some(v)])
           ELSE IF a \in TicketFlags
             THEN ParseFrom(tokens, i + 2, [result EXCEPT !.ticketID = Some(v)])
           ELSE IF a \in CopyFlags
             THEN ParseFrom(tokens, i + 1, [result EXCEPT !.autoCopy = TRUE])
           ELSE IF a \in ModelFlags
             THEN ParseFrom(tokens, i + 2, [result EXCEPT !.model = Some(v)])
           ELSE IF a \in TemplateFlags
             THEN ParseFrom(tokens, i + 2, [result EXCEPT !.promptTemplate = Some(v)])
           ELSE IF a \in DebugFlags
             THEN ParseFrom(tokens, i + 1, [result EXCEPT !.debug = TRUE])
           ELSE ParseFrom(tokens, i + 1, result)

\* a parser that looks for the help flags anywhere in the list, as
\* args.includes("--help") would, before the scan
parseArgsHelpAnywhere(tokens) ==
  [help |-> \E i \in 1..Len(tokens) : tokens[i] \in HelpFlags,
   result |-> ParseFrom(tokens, 1, EmptyArgs).result]

\* parseArgs(args)
parseArgs(tokens) == ParseFrom(tokens, 1, EmptyArgs)

(***************************************************************************)
(* summarizeDiff (src/commit-assist.js).                                   *)
(***************************************************************************)
\* the characters "." of a regular expression does not match, which are
\* also where ^ and $ match under the m flag
LineTerminators == {"\n", "\r"}

DiffHeaderPrefix == <<"d", "i", "f", "f", " ", "-", "-", "g", "i", "t", " ", "a", "/">>

DiffHeaderMiddle == <<" ", "b", "/">>

RECURSIVE LineEnd(_, _)
\* the position of the first line terminator of s at or after i, Len(s) + 1
\* when there is none: the line that starts at i is s[i .. LineEnd(s, i) - 1]
LineEnd(s, i) ==
  IF i <= Len(s) /\ s[i] \notin LineTerminators THEN LineEnd(s, i + 1) ELSE i

RECURSIVE LazyPathEnd(_, _, _)
\* (.+?) b\/.+$ in a line that ends before position t: the first position
\* at or after k where " b/" occurs with at least one character of the line
\* after it; 0 when there is none
LazyPathEnd(s, k, t) ==
  IF k + Len(DiffHeaderMiddle) >= t THEN 0
  ELSE IF MatchAt(s, DiffHeaderMiddle, k) THEN k
  ELSE LazyPathEnd(s, k + 1, t)

RECURSIVE DiffFilesFrom(_, _)
\* the match[1] of every match of /^diff --git a\/(.+?) b\/.+$/gm in the
\* lines of s from the line that starts at position i
DiffFilesFrom(s, i) ==
  IF i > Len(s) THEN <<>>
  ELSE LET t == LineEnd(s, i)
           p == i + Len(DiffHeaderPrefix)
           k == IF MatchAt(s, DiffHeaderPrefix, i) /\ p < t
                  THEN LazyPathEnd(s, p + 1, t) ELSE 0
           rest == DiffFilesFrom(s, t + 1)
       IN  IF k > 0 THEN <<SubSeq(s, p, k - 1)>> \o rest ELSE rest

RECURSIVE JoinWith(_, _)
\* Array.prototype.join
JoinWith(texts, sep) ==
  IF texts = <<>> THEN <<>>
  ELSE IF Len(texts) = 1 THEN texts[1]
  ELSE texts[1] \o sep \o JoinWith(Tail(texts), sep)

summarizeDiff(gitDiff) ==
  LET files == DiffFilesFrom(gitDiff, 1)
  IN  IF Len(files) > 0
        THEN <<"F", "i", "l", "e", "s", " ", "c", "h", "a", "n", "g", "e", "d", ":", " ">> \o JoinWith(files, <<",", " ">>)
        ELSE <<"N", "o", " ", "f", "i", "l", "e", "s", " ", "c", "h", "a", "n", "g", "e", "d">>

(***************************************************************************)
(* validatePromptTemplate (src/commit-assist.js).                          *)
(***************************************************************************)
PhGitStagedChanges == <<"{", "g", "i", "t", "S", "t", "a", "g", "e", "d", "C", "h", "a", "n", "g", "e", "s", "}">>

PhGitDiff == <<"{", "g", "i", "t", "D", "i", "f", "f", "}">>

PhUserContext == <<"{", "u", "s", "e", "r", "C", "o", "n", "t", "e", "x", "t", "}">>

PhRecentCommits == <<"{", "r", "e", "c", "e", "n", "t", "C", "o", "m", "m", "i", "t", "s", "}">>

PhBranchName == <<"{", "b", "r", "a", "n", "c", "h", "N", "a", "m", "e", "}">>

PhGitDiffSummary == <<"{", "g", "i", "t", "D", "i", "f", "f", "S", "u", "m", "m", "a", "r", "y", "}">>

PhConventionalText == <<"{", "c", "o", "n", "v", "e", "n", "t", "i", "o", "n", "a", "l", "T", "e", "x", "t", "}">>

PhExamples == <<"{", "e", "x", "a", "m", "p", "l", "e", "s", "}">>

PhTicketID == <<"{", "t", "i", "c", "k", "e", "t", "I", "D", "}">>

\* const requiredPlaceholders = [...]
requiredPlaceholdersV1 ==
  <<PhGitStagedChanges, PhGitDiff, PhUserContext>>

requiredPlaceholders ==
  <<PhGitStagedChanges, PhGitDiff, PhUserContext, PhRecentCommits,
    PhBranchName, PhGitDiffSummary, PhConventionalText>>

\* the filter over the three placeholders the first variant requires
missingPlaceholdersV1(template) ==
  SelectSeq(requiredPlaceholdersV1, LAMBDA p : ~Includes(template, p))

\* requiredPlaceholders.filter((placeholder) => !template.includes(placeholder))
missingPlaceholders(template) ==
  SelectSeq(requiredPlaceholders, LAMBDA p : ~Includes(template, p))

\* validatePromptTemplate returns true; otherwise it prints the missing
\* names and calls process.exit(1)
validatePromptTemplate(template) == Len(missingPlaceholders(template)) = 0

(***************************************************************************)
(* fillTemplate (src/commit-assist.js) and the chained String.replace      *)
(* substitution of the earlier variants.                                   *)
(***************************************************************************)
KeyGitStagedChanges == <<"g", "i", "t", "S", "t", "a", "g", "e", "d", "C", "h", "a", "n", "g", "e", "s">>

KeyGitDiff == <<"g", "i", "t", "D", "i", "f", "f">>

KeyUserContext == <<"u", "s", "e", "r", "C", "o", "n", "t", "e", "x", "t">>

KeyRecentCommits == <<"r", "e", "c", "e", "n", "t", "C", "o", "m", "m", "i", "t", "s">>

KeyBranchName == <<"b", "r", "a", "n", "c", "h", "N", "a", "m", "e">>

KeyGitDiffSummary == <<"g", "i", "t", "D", "i", "f", "f", "S", "u", "m", "m", "a", "r", "y">>

KeyConventionalText == <<"c", "o", "n", "v", "e", "n", "t", "i", "o", "n", "a", "l", "T", "e", "x", "t">>

KeyExamples == <<"e", "x", "a", "m", "p", "l", "e", "s">>

\* Property names every object literal inherits from Object.prototype: the
\* in operator of fillTemplate is true of them too, and values[key] is
\* then the inherited member, converted to a string by replace()
ObjectPrototypeText ==
  [k \in {<<"c", "o", "n", "s", "t", "r", "u", "c", "t", "o", "r">>, <<"t", "o", "S", "t", "r", "i", "n", "g">>, <<"v", "a", "l", "u", "e", "O", "f">>, <<"h", "a", "s", "O", "w", "n", "P", "r", "o", "p", "e", "r", "t", "y">>} |->
     IF k = <<"c", "o", "n", "s", "t", "r", "u", "c", "t", "o", "r">> THEN <<"f", "u", "n", "c", "t", "i", "o", "n", " ", "O", "b", "j", "e", "c", "t", "(", ")", " ", "{", " ", "[", "n", "a", "t", "i", "v", "e", " ", "c", "o", "d", "e", "]", " ", "}">>
     ELSE IF k = <<"t", "o", "S", "t", "r", "i", "n", "g">> THEN <<"f", "u", "n", "c", "t", "i", "o", "n", " ", "t", "o", "S", "t", "r", "i", "n", "g", "(", ")", " ", "{", " ", "[", "n", "a", "t", "i", "v", "e", " ", "c", "o", "d", "e", "]", " ", "}">>
     ELSE IF k = <<"v", "a", "l", "u", "e", "O", "f">> THEN <<"f", "u", "n", "c", "t", "i", "o", "n", " ", "v", "a", "l", "u", "e", "O", "f", "(", ")", " ", "{", " ", "[", "n", "a", "t", "i", "v", "e", " ", "c", "o", "d", "e", "]", " ", "}">>
     ELSE <<"f", "u", "n", "c", "t", "i", "o", "n", " ", "h", "a", "s", "O", "w", "n", "P", "r", "o", "p", "e", "r", "t", "y", "(", ")", " ", "{", " ", "[", "n", "a", "t", "i", "v", "e", " ", "c", "o", "d", "e", "]", " ", "}">>]

\* key in values
KeyIn(key, values) == key \in DOMAIN values \/ key \in DOMAIN ObjectPrototypeText

\* values[key]
Lookup(values, key) ==
  IF key \in DOMAIN values THEN values[key] ELSE ObjectPrototypeText[key]

\* the position after the \w+ of a token {\w+} that starts at position k of
\* template, 0 when no token starts there
TokenEnd(template, k) ==
  LET e == SkipWhile(template, WordChars, k + 1)
  IN  IF template[k] = "{" /\ e > k + 1 /\ e <= Len(template) /\ template[e] = "}"
        THEN e ELSE 0

RECURSIVE FillFrom(_, _, _)
\* template.replace(/\{(\w+)\}/g, (match, key) => key in values ?
\* values[key] : match) from position i: the scan goes from one token to
\* the next over the template alone, a replacement is never scanned again
FillFrom(template, values, i) ==
  LET tokens == {k \in i..Len(template) : TokenEnd(template, k) > 0}
  IN  IF tokens = {} THEN From(template, i)
      ELSE LET k == Min(tokens)
               e == TokenEnd(template, k)
               key == SubSeq(template, k + 1, e - 1)
               match == SubSeq(template, k, e)
           IN  SubSeq(template, i, k - 1)
                 \o (IF KeyIn(key, values) THEN Lookup(values, key) ELSE match)
                 \o FillFrom(template, values, e + 1)

fillTemplate(template, values) == FillFrom(template, values, 1)

RECURSIVE ExpandReplacement(_, _, _, _, _)
\* The replacement patterns of String.prototype.replace with a string
\* replacement: $$ is a dollar, $& the match, $ with a backtick the text
\* before the match and $ with a single quote the text after it; any other
\* dollar stays as it is
ExpandReplacement(r, i, match, before, after) ==
  IF i > Len(r) THEN <<>>
  ELSE IF r[i] = "$" /\ i < Len(r) /\ r[i + 1] \in {"$", "&", Backtick, "'"}
    THEN (CASE r[i + 1] = "$" -> <<"$">>
            [] r[i + 1] = "&" -> match
            [] r[i + 1] = Backtick -> before
            [] r[i + 1] = "'" -> after)
           \o ExpandReplacement(r, i + 2, match, before, after)
    ELSE <<r[i]>> \o ExpandReplacement(r, i + 1, match, before, after)

\* s.replace(pattern, replacement) with a string pattern: only the first
\* occurrence of the pattern is replaced
ReplaceFirst(s, pattern, replacement) ==
  LET at == IndexOfFrom(s, pattern, 1)
  IN  IF at = 0 THEN s
      ELSE LET before == SubSeq(s, 1, at - 1)
               after == From(s, at + Len(pattern))
           IN  before \o ExpandReplacement(replacement, 1, pattern, before, after)
                 \o after

\* promptTemplate.replace("{gitStagedChanges}", ...).replace("{gitDiff}", ...)
\*   .replace("{userContext}", ...) of the first variant
chainReplace(template, values) ==
  ReplaceFirst(
    ReplaceFirst(
      ReplaceFirst(template, PhGitStagedChanges, values[KeyGitStagedChanges]),
      PhGitDiff, values[KeyGitDiff]),
    PhUserContext, values[KeyUserContext])

(***************************************************************************)
(* The post-processor (src/commit-assist.js).                              *)
(***************************************************************************)
\* /^[a-z]+(\([^)]*\))?\s*:\s*/i: the position after the conventional
\* prefix of message, 0 when message does not start with one
ConventionalPrefixEnd(message) ==
  LET l == SkipWhile(message, LowerSet \cup UpperSet, 1)
      RECURSIVE ScopeEnd(_)
      ScopeEnd(i) ==
        IF i > Len(message) THEN 0
        ELSE IF message[i] = ")" THEN i + 1
        ELSE ScopeEnd(i + 1)
      sc == IF l <= Len(message) /\ message[l] = "(" THEN ScopeEnd(l + 1) ELSE 0
      AfterColon(i) ==
        LET c == SkipWhile(message, WhiteSpace, i)
        IN  IF c <= Len(message) /\ message[c] = ":"
              THEN SkipWhile(message, WhiteSpace, c + 1) ELSE 0
  IN  IF l = 1 THEN 0
      ELSE IF sc > 0 /\ AfterColon(sc) > 0 THEN AfterColon(sc)
      ELSE AfterColon(l)

applyCustomConventionalType(message, customType) ==
  IF customType = <<>> THEN message
  ELSE IF Trim(customType) = <<>> THEN message
  ELSE LET e == ConventionalPrefixEnd(message)
       IN  IF e > 0
             THEN ExpandReplacement(customType \o <<":", " ">>, 1,
                                    SubSeq(message, 1, e - 1), <<>>, From(message, e))
                    \o From(message, e)
             ELSE customType \o <<":", " ">> \o message

\* /\s*\([A-Z]+-\d+\)\s*$/: the position where the trailing ticket
\* reference of message starts (with the white space before it), 0 when
\* message does not end with one
TicketRefStart(message, i) ==
  LET RefAt(k) ==
        LET a == SkipWhile(message, WhiteSpace, k)
            u == SkipWhile(message, UpperSet, a + 1)
            d == SkipWhile(message, Digits, u + 1)
            z == SkipWhile(message, WhiteSpace, d + 1)
        IN  /\ a <= Len(message) /\ message[a] = "("
            /\ u > a + 1
            /\ u <= Len(message) /\ message[u] = "-"
            /\ d > u + 1
            /\ d <= Len(message) /\ message[d] = ")"
            /\ z = Len(message) + 1
      hits == {k \in i..Len(message) : RefAt(k)}
  IN  IF hits = {} THEN 0 ELSE Min(hits)

\* the ticket id appended without removing a reference already there
formatCommitMessageAppendOnly(message, ticketID) ==
  IF ticketID = <<>> THEN message
  ELSE message \o <<" ", "(">> \o ticketID \o <<")">>

\* the ticket id appended without looking for a reference already there,
\* and without the blank
formatCommitMessagePlain(message, ticketID) ==
  IF ticketID = <<>> THEN message
  ELSE message \o <<"(">> \o ticketID \o <<")">>

\* formatCommitMessage(message, ticketID)
formatCommitMessage(message, ticketID) ==
  IF ticketID = <<>> THEN message
  ELSE LET at == TicketRefStart(message, 1)
           cleanMessage == IF at = 0 THEN message ELSE SubSeq(message, 1, at - 1)
       IN  cleanMessage \o <<" ", "(">> \o ticketID \o <<")">>

\* the tail of generateCommitMessage without the trim() of the whole
\* response
aiMessageNoTrim(fullResponse) ==
  CollapseWhitespace(StripQuoteRuns(FirstLine(fullResponse)))

\* The tail of generateCommitMessage: fullResponse.trim().split("\n")[0]
\*   .replace(/^[quotes]+|[quotes]+$/g, empty).replace(/\s+/g, one space)
aiMessageOf(fullResponse) ==
  CollapseWhitespace(StripQuoteRuns(FirstLine(Trim(fullResponse))))

\* the condition of the warning without the test of the length
isGenericAnyLength(aiMessage) ==
  \/ aiMessage = <<>>
  \/ Includes(ToLowerCase(aiMessage), <<"c", "o", "m", "m", "i", "t", " ", "m", "e", "s", "s", "a", "g", "e">>)

\* the condition of the warning of generateCommitMessage
isGeneric(aiMessage) ==
  \/ aiMessage = <<>>
  \/ Includes(ToLowerCase(aiMessage), <<"c", "o", "m", "m", "i", "t", " ", "m", "e", "s", "s", "a", "g", "e">>)
  \/ Len(aiMessage) < 5

\* cleanAndFormatMessage with the character limit that the source keeps
\* in a comment switched on
cleanAndFormatMessageLimited(message, conventionalType, ticketID) ==
  LET cleaned == CollapseWhitespace(Trim(StripQuoteRuns(message)))
      cleanMessage == IF Len(cleaned) > 90
                        THEN SubSeq(cleaned, 1, 87) \o <<".", ".", ".">> ELSE cleaned
      typed == IF IsDefined(conventionalType)
                 THEN applyCustomConventionalType(cleanMessage, conventionalType[1])
                 ELSE cleanMessage
  IN  IF Truthy(ticketID) THEN formatCommitMessage(typed, ticketID[1]) ELSE typed

\* cleanAndFormatMessage(message, args): args is any object, of which only
\* conventionalType and ticketID are read
cleanAndFormatMessage(message, conventionalType, ticketID) ==
  LET cleanMessage == CollapseWhitespace(Trim(StripQuoteRuns(message)))
      typed == IF IsDefined(conventionalType)
                 THEN applyCustomConventionalType(cleanMessage, conventionalType[1])
                 ELSE cleanMessage
  IN  IF Truthy(ticketID) THEN formatCommitMessage(typed, ticketID[1]) ELSE typed

(***************************************************************************)
(* The state of one run of main() (src/commit-assist.js) and of its        *)
(* collaborators: git, the terminal, the file system, the inference        *)
(* provider and the clipboard.                                             *)
(***************************************************************************)
VARIABLES
  argv,               \* process.argv.slice(2)
  repo,               \* the working directory: "none", "clean" or "staged"
  pc,                 \* where main() is waiting
  args,               \* const args = parseArgs()
  exitCode,           \* the status of process.exit, -1 while running
  helpShown,          \* showHelp() was called
  gitCalls,           \* git subprocesses started
  userPrompts,        \* questions asked with getUserInput
  sub,                \* the outstanding execAsync calls of a Promise.all
  gitData,            \* const gitData = await getGitData(debug)
  userContext,        \* let userContext
  recentCommits,      \* what getRecentCommits resolved to
  branchName,         \* what getBranchName resolved to
  gitDiffSummary,     \* const gitDiffSummary = summarizeDiff(gitData.gitDiff)
  promptTemplate,     \* let promptTemplate (undefined until loaded)
  inferCalls,         \* calls of ollama.generate
  request,            \* the last {model, prompt} sent to ollama.generate
  regens,             \* 'r' answers given in the interactive loop
  warned,             \* consola.warn of generateCommitMessage was printed
  cleanCommitMessage, \* let cleanCommitMessage (undefined until set)
  displayed,          \* the messages shown with consola.box, oldest first
  copyCalls,          \* calls of copyToClipboard
  clipboard,          \* the text on the clipboard (undefined: never written)
  copyFailed,         \* the last copyToClipboard returned false
  errors,             \* the kinds of lines printed with consola.error
  aiMessage,          \* what the last generateCommitMessage returned
  action,             \* the last answer to "Accept, regenerate, or quit?"
  copyResponse,       \* the answer to "Copy to clipboard? (Y/n)"
  input,              \* the input of a function under SpecValidate, SpecFill, SpecClean
  output,             \* what it returned
  stage               \* the step reached under those specifications

vars ==
  <<argv, repo, pc, args, exitCode, helpShown, gitCalls, userPrompts, sub,
    gitData, userContext, recentCommits, branchName, gitDiffSummary,
    promptTemplate, inferCalls, request, regens, warned,
    cleanCommitMessage, displayed, copyCalls, clipboard, copyFailed,
    errors, aiMessage, action, copyResponse, input, output, stage>>

\* the variables of the run of main()
mainVars ==
  <<argv, repo, pc, args, exitCode, helpShown, gitCalls, userPrompts, sub,
    gitData, userContext, recentCommits, branchName, gitDiffSummary,
    promptTemplate, inferCalls, request, regens, warned,
    cleanCommitMessage, displayed, copyCalls, clipboard, copyFailed,
    errors, aiMessage, action, copyResponse>>

\* the variables of the function specifications
fnVars == <<input, output, stage>>

(***************************************************************************)
(* The inputs of a run.                                                    *)
(***************************************************************************)
TicketJira == <<"J", "I", "R", "A", "-", "1">>

TypeFix == <<"f", "i", "x">>

CustomPath == <<"m", "y", ".", "m", "d">>

\* the command-line words a run is started with: a flag alone, or a flag
\* with its value
ArgWords ==
  { <<<<"-", "-", "h", "e", "l", "p">>>>, <<<<"-", "c">>>>, <<<<"-", "c", "t", "x">>>>,
    <<<<"-", "t">>, TypeFix>>, <<<<"-", "t", "i", "d">>, TicketJira>>, <<<<"-", "p", "t">>, CustomPath>> }

ArgLists == {Flatten(ws) : ws \in SeqsUpTo(ArgWords, MaxArgs)}

\* what the user types at "Enter any additional context (optional): "
ContextAnswers == {<<>>, <<"w", "i", "p">>}

\* stdout of the git subprocesses in a repository with staged changes
StagedStatusOut == <<"M", "\t", "f", ".", "j", "s", "\n">>

StagedDiffOut == <<"d", "i", "f", "f", " ", "-", "-", "g", "i", "t", " ", "a", "/", "f", ".", "j", "s", " ", "b", "/", "f", ".", "j", "s", "\n", "+", "x", "\n">>

LogOut == <<"a", "b", "c", "1", " ", "i", "n", "i", "t", "\n">>

BranchOut == <<"m", "a", "i", "n", "\n">>

\* stdout of a git subprocess that succeeded
SubOut(name) ==
  CASE name = "status" -> IF repo = "staged" THEN StagedStatusOut ELSE <<>>
    [] name = "diff" -> IF repo = "staged" THEN StagedDiffOut ELSE <<>>
    [] name = "log" -> LogOut
    [] name = "branch" -> BranchOut

\* prompt.md as shipped: its seven placeholder lines, in the order of the
\* file; the prose between them holds no brace and is cut to a label
ShippedPrompt ==
  <<"K", "e", "y", " ", "r", "u", "l", "e", "s", ":", "\n", " ", " ", "-", " ">> \o PhConventionalText \o <<"\n", "\t", "*", "*", "B", "r", "a", "n", "c", "h", ":", "*", "*", " ">> \o PhBranchName
    \o <<"\n", "\t", "*", "*", "R", "e", "c", "e", "n", "t", " ", "c", "o", "m", "m", "i", "t", "s", ":", "*", "*", "\n", "\t">> \o PhRecentCommits
    \o <<"\n", "\t", "*", "*", "S", "t", "a", "g", "e", "d", " ", "c", "h", "a", "n", "g", "e", "s", ":", "*", "*", "\n", "\t">> \o PhGitStagedChanges
    \o <<"\n", " ", " ", "*", "*", "F", "u", "l", "l", " ", "s", "t", "a", "g", "e", "d", " ", "d", "i", "f", "f", ":", "*", "*", "\n", " ", " ">> \o PhGitDiff
    \o <<"\n", "\t", "*", "*", "D", "i", "f", "f", " ", "s", "u", "m", "m", "a", "r", "y", ":", "*", "*", "\n", "\t">> \o PhGitDiffSummary
    \o <<"\n", " ", " ", "*", "*", "U", "s", "e", "r", " ", "c", "o", "n", "t", "e", "x", "t", ":", "*", "*", "\n", " ", " ">> \o PhUserContext

\* prompt.md after the user customised it (README: "You can fully
\* customize this file"): the diff summary and the branch are dropped
EditedPrompt ==
  <<"W", "r", "i", "t", "e", " ", "a", " ", "c", "o", "m", "m", "i", "t", " ", "m", "e", "s", "s", "a", "g", "e", " ", "f", "o", "r", " ">> \o PhGitStagedChanges \o <<"\n">> \o PhGitDiff
    \o <<"\n">> \o PhUserContext \o <<"\n">> \o PhRecentCommits \o <<"\n">> \o PhConventionalText

\* a custom template file with every required placeholder, one of them
\* twice, and the optional {examples} and {ticketID}
FullCustomTemplate ==
  PhGitStagedChanges \o <<" ">> \o PhGitDiff \o <<" ">> \o PhUserContext \o <<" ">>
    \o PhRecentCommits \o <<" ">> \o PhBranchName \o <<" ">> \o PhGitDiffSummary \o <<" ">>
    \o PhConventionalText \o <<" ">> \o PhTicketID \o <<" ">> \o PhBranchName

\* a custom template file without {gitDiffSummary} and {conventionalText}
PartialCustomTemplate ==
  PhGitStagedChanges \o <<" ">> \o PhGitDiff \o <<" ">> \o PhUserContext \o <<" ">>
    \o PhRecentCommits \o <<" ">> \o PhBranchName

\* what the file system holds at the path of --prompt-template
CustomFiles ==
  { [kind |-> "missing", content |-> <<>>],
    [kind |-> "directory", content |-> <<>>],
    [kind |-> "unreadable", content |-> <<>>],
    [kind |-> "file", content |-> FullCustomTemplate],
    [kind |-> "file", content |-> PartialCustomTemplate],
    [kind |-> "file", content |-> <<>>] }

\* what the file system holds at prompt.md beside the script
DefaultFiles ==
  { [kind |-> "unreadable", content |-> <<>>],
    [kind |-> "file", content |-> ShippedPrompt],
    [kind |-> "file", content |-> EditedPrompt] }

\* what the inference provider streams back
RawOutputs ==
  { <<>>, <<" ", " ", "'", "w", "i", "p", "'", " ", " ">>, <<"f", "e", "a", "t", "(", "x", ")", ":", " ", "a", "d", "d", " ", "t", "h", "i", "n", "g", "\n", "D", "o", "n", "e", ".">>, <<"Y", "o", "u", "r", " ", "C", "o", "m", "m", "i", "t", " ", "M", "e", "s", "s", "a", "g", "e">> }

\* an inference call throws, or returns a raw text
InferOutcomes ==
  {[ok |-> FALSE, text |-> <<>>]} \cup {[ok |-> TRUE, text |-> r] : r \in RawOutputs}

\* what the user types at "Accept, regenerate, or quit? (a/r/q): "
LoopAnswers == {<<" ", "R", " ">>, <<"A">>, <<>>, <<"Q", " ">>, <<" ">>}

\* what the user types at "Copy to clipboard? (Y/n): "
CopyAnswers == {<<>>, <<" ", "N", "o", " ">>}

DefaultModel == <<"l", "l", "a", "m", "a", "3", ".", "2", ":", "l", "a", "t", "e", "s", "t">>

(***************************************************************************)
(* generateCommitMessage: the values of the substitution.                  *)
(***************************************************************************)
ConventionalOn == <<"U", "s", "e", " ", "t", "h", "e", " ", "C", "o", "n", "v", "e", "n", "t", "i", "o", "n", "a", "l", " ", "C", "o", "m", "m", "i", "t", "s", " ", "f", "o", "r", "m", "a", "t", " ", "(", "t", "y", "p", "e", ":", " ", "s", "c", "o", "p", "e", ":", " ", "s", "u", "b", "j", "e", "c", "t", ")", ".">>

ConventionalOff == <<"D", "o", " ", "n", "o", "t", " ", "u", "s", "e", " ", "C", "o", "n", "v", "e", "n", "t", "i", "o", "n", "a", "l", " ", "C", "o", "m", "m", "i", "t", " ", "t", "y", "p", "e", "s", " ", "(", "e", ".", "g", ".", ",", " ", "f", "e", "a", "t", ":", ",", " ", "f", "i", "x", ":", ",", " ", "d", "o", "c", "s", ":", ")", ".">>

ExamplesOn ==
  <<"\n", "-", " ", "f", "e", "a", "t", "(", "a", "u", "t", "h", ")", ":", " ", "a", "d", "d", " ", "O", "A", "u", "t", "h", "2", " ", "l", "o", "g", "i", "n", " ", "s", "u", "p", "p", "o", "r", "t", " ", "f", "o", "r", " ", "G", "o", "o", "g", "l", "e", " ", "a", "c", "c", "o", "u", "n", "t", "s", "\n", "-", " ", "f", "i", "x", ":", " ", "c", "o", "r", "r", "e", "c", "t", " ", "u", "s", "e", "r", " ", "I", "D", " ", "v", "a", "l", "i", "d", "a", "t", "i", "o", "n", " ", "i", "n", " ", "r", "e", "g", "i", "s", "t", "r", "a", "t", "i", "o", "n", " ", "e", "n", "d", "p", "o", "i", "n", "t", "\n", "-", " ", "r", "e", "f", "a", "c", "t", "o", "r", ":", " ", "e", "x", "t", "r", "a", "c", "t", " ", "s", "h", "a", "r", "e", "d", " ", "l", "o", "g", "i", "c", " ", "i", "n", "t", "o", " ", "u", "t", "i", "l", "i", "t", "y", " ", "f", "u", "n", "c", "t", "i", "o", "n", "s", "\n", "-", " ", "d", "o", "c", "s", ":", " ", "u", "p", "d", "a", "t", "e", " ", "R", "E", "A", "D", "M", "E", " ", "w", "i", "t", "h", " ", "s", "e", "t", "u", "p", " ", "i", "n", "s", "t", "r", "u", "c", "t", "i", "o", "n", "s", " ", "f", "o", "r", " ", "n", "e", "w", " ", "c", "o", "n", "t", "r", "i", "b", "u", "t", "o", "r", "s", "\n", "-", " ", "s", "t", "y", "l", "e", ":", " ", "r", "e", "f", "o", "r", "m", "a", "t", " ", "c", "o", "d", "e", "b", "a", "s", "e", " ", "w", "i", "t", "h", " ", "P", "r", "e", "t", "t", "i", "e", "r", "\n", "-", " ", "c", "h", "o", "r", "e", ":", " ", "b", "u", "m", "p", " ", "d", "e", "p", "e", "n", "d", "e", "n", "c", "i", "e", "s", " ", "t", "o", " ", "l", "a", "t", "e", "s", "t", " ", "m", "i", "n", "o", "r", " ", "v", "e", "r", "s", "i", "o", "n", "s", "\n", "-", " ", "t", "e", "s", "t", ":", " ", "a", "d", "d", " ", "u", "n", "i", "t", " ", "t", "e", "s", "t", "s", " ", "f", "o", "r", " ", "p", "a", "y", "m", "e", "n", "t", " ", "p", "r", "o", "c", "e", "s", "s", "i", "n", "g", " ", "m", "o", "d", "u", "l", "e", "\n", "-", " ", "p", "e", "r", "f", ":", " ", "o", "p", "t", "i", "m", "i", "z", "e", " ", "i", "m", "a", "g", "e", " ", "l", "o", "a", "d", "i", "n", "g", " ", "f", "o", "r", " ", "f", "a", "s", "t", "e", "r", " ", "p", "a", "g", "e", " ", "r", "e", "n", "d", "e", "r", "\n", " ", " ", " ", " ", " ", " ", " ", " ">>

ExamplesOff ==
  <<"\n", "-", " ", "A", "d", "d", " ", "O", "A", "u", "t", "h", "2", " ", "l", "o", "g", "i", "n", " ", "s", "u", "p", "p", "o", "r", "t", " ", "f", "o", "r", " ", "G", "o", "o", "g", "l", "e", " ", "a", "c", "c", "o", "u", "n", "t", "s", "\n", "-", " ", "C", "o", "r", "r", "e", "c", "t", " ", "u", "s", "e", "r", " ", "I", "D", " ", "v", "a", "l", "i", "d", "a", "t", "i", "o", "n", " ", "i", "n", " ", "r", "e", "g", "i", "s", "t", "r", "a", "t", "i", "o", "n", " ", "e", "n", "d", "p", "o", "i", "n", "t", "\n", "-", " ", "E", "x", "t", "r", "a", "c", "t", " ", "s", "h", "a", "r", "e", "d", " ", "l", "o", "g", "i", "c", " ", "i", "n", "t", "o", " ", "u", "t", "i", "l", "i", "t", "y", " ", "f", "u", "n", "c", "t", "i", "o", "n", "s", "\n", "-", " ", "U", "p", "d", "a", "t", "e", " ", "R", "E", "A", "D", "M", "E", " ", "w", "i", "t", "h", " ", "s", "e", "t", "u", "p", " ", "i", "n", "s", "t", "r", "u", "c", "t", "i", "o", "n", "s", " ", "f", "o", "r", " ", "n", "e", "w", " ", "c", "o", "n", "t", "r", "i", "b", "u", "t", "o", "r", "s", "\n", "-", " ", "R", "e", "f", "o", "r", "m", "a", "t", " ", "c", "o", "d", "e", "b", "a", "s", "e", " ", "w", "i", "t", "h", " ", "P", "r", "e", "t", "t", "i", "e", "r", "\n", "-", " ", "U", "p", "g", "r", "a", "d", "e", " ", "d", "e", "p", "e", "n", "d", "e", "n", "c", "i", "e", "s", " ", "t", "o", " ", "l", "a", "t", "e", "s", "t", " ", "m", "i", "n", "o", "r", " ", "v", "e", "r", "s", "i", "o", "n", "s", "\n", "-", " ", "A", "d", "d", " ", "u", "n", "i", "t", " ", "t", "e", "s", "t", "s", " ", "f", "o", "r", " ", "p", "a", "y", "m", "e", "n", "t", " ", "p", "r", "o", "c", "e", "s", "s", "i", "n", "g", " ", "m", "o", "d", "u", "l", "e", "\n", "-", " ", "O", "p", "t", "i", "m", "i", "z", "e", " ", "i", "m", "a", "g", "e", " ", "l", "o", "a", "d", "i", "n", "g", " ", "f", "o", "r", " ", "f", "a", "s", "t", "e", "r", " ", "p", "a", "g", "e", " ", "r", "e", "n", "d", "e", "r", "\n">>

\* const useConventional = args.useAiConventional !== undefined
\*   ? args.useAiConventional : (args.conventionalType ?? false),
\* read for its truthiness only
useConventionalOf(a) ==
  IF a.useAiConventional THEN TRUE ELSE Truthy(a.conventionalType)

\* const values = {...} of generateCommitMessage
valuesOf(gd, ctx, commits, branch, summary, useConventional) ==
  (KeyGitStagedChanges :> gd.gitStagedChanges)
    @@ (KeyGitDiff :> gd.gitDiff)
    @@ (KeyUserContext :> ctx)
    @@ (KeyRecentCommits :> commits)
    @@ (KeyBranchName :> branch)
    @@ (KeyGitDiffSummary :> summary)
    @@ (KeyConventionalText :> IF useConventional THEN ConventionalOn ELSE ConventionalOff)
    @@ (KeyExamples :> IF useConventional THEN ExamplesOn ELSE ExamplesOff)

\* obj.name of an object literal: undefined when the object has no such
\* property
Prop(obj, name) == IF name \in DOMAIN obj THEN obj[name] ELSE Undefined

\* refineCommitMessage(initialMessage, args): what it displays and returns
refineCommitMessage(initialMessage, a) ==
  cleanAndFormatMessage(initialMessage, Prop(a, "conventionalType"), Prop(a, "ticketID"))

(***************************************************************************)
(* main() of src/commit-assist.js, one action per step between awaits.     *)
(***************************************************************************)
SubIdle == [n \in {"status", "diff", "log", "branch"} |-> "idle"]

NoGitData == [gitStagedChanges |-> <<>>, gitDiff |-> <<>>, hasStaged |-> FALSE]

\* the state of the function specifications while main() runs
FnIdle == input = <<>> /\ output = <<>> /\ stage = "main"

Init ==
  /\ argv \in ArgLists
  /\ repo \in {"none", "clean", "staged"}
  /\ pc = "start"
  /\ args = EmptyArgs
  /\ exitCode = -1
  /\ helpShown = FALSE
  /\ gitCalls = 0
  /\ userPrompts = 0
  /\ sub = SubIdle
  /\ gitData = NoGitData
  /\ userContext = <<>>
  /\ recentCommits = Undefined
  /\ branchName = Undefined
  /\ gitDiffSummary = Undefined
  /\ promptTemplate = Undefined
  /\ inferCalls = 0
  /\ request = Undefined
  /\ regens = 0
  /\ warned = FALSE
  /\ cleanCommitMessage = Undefined
  /\ displayed = <<>>
  /\ copyCalls = 0
  /\ clipboard = Undefined
  /\ copyFailed = FALSE
  /\ errors = {}
  /\ aiMessage = Undefined
  /\ action = Undefined
  /\ copyResponse = Undefined
  /\ FnIdle

\* process.exit whatever the code, reported as success
ExitZero(code) == pc' = "exited" /\ exitCode' = 0

\* process.exit(code), or main() returning with nothing left to run (0)
Exit(code) == pc' = "exited" /\ exitCode' = code

\* consola.error: the kinds of lines printed
Report(kinds) == errors' = errors \cup kinds

\* a catch that reports and waits for the call once more
MainCatchWaitsAgain(kind) == Report({kind, "main"}) /\ pc' = pc /\ exitCode' = exitCode

\* a function reports its error (kind) and rethrows; the catch of main()
\* prints "Error:" and calls process.exit(1)
MainCatch(kind) == Report({kind, "main"}) /\ Exit(1)

\* const args = parseArgs(): --help prints the usage and exits with 0
ParseArgs ==
  /\ pc = "start"
  /\ LET r == parseArgs(argv)
     IN  IF r.help
           THEN helpShown' = TRUE /\ Exit(0) /\ args' = args
           ELSE helpShown' = helpShown /\ pc' = "revParse" /\ exitCode' = exitCode
                  /\ args' = r.result
  /\ UNCHANGED <<argv, repo, gitCalls, userPrompts, sub, gitData, userContext,
                 recentCommits, branchName, gitDiffSummary, promptTemplate,
                 inferCalls, request, regens, warned, cleanCommitMessage,
                 displayed, copyCalls, clipboard, copyFailed, errors,
                 aiMessage, action, copyResponse, input, output, stage>>

\* getGitData: git rev-parse --is-inside-work-tree; a failure is "Not a git
\* repository" and process.exit(1)
RevParse ==
  /\ pc = "revParse"
  /\ gitCalls' = gitCalls + 1
  /\ \E ok \in IF repo = "none" THEN {FALSE} ELSE {TRUE, FALSE} :
       IF ok THEN pc' = "quietCheck" /\ exitCode' = exitCode /\ Report({})
             ELSE Exit(1) /\ Report({"notRepo"})
  /\ UNCHANGED <<argv, repo, args, helpShown, userPrompts, sub, gitData,
                 userContext, recentCommits, branchName, gitDiffSummary,
                 promptTemplate, inferCalls, request, regens, warned,
                 cleanCommitMessage, displayed, copyCalls, clipboard,
                 copyFailed, aiMessage, action, copyResponse, input,
                 output, stage>>

\* getGitData: git diff --cached --quiet, whose outcome is only logged; then
\* both execAsync calls of the Promise.all are started
QuietCheck ==
  /\ pc = "quietCheck"
  /\ gitCalls' = gitCalls + 3
  /\ sub' = [sub EXCEPT !["status"] = "pending", !["diff"] = "pending"]
  /\ pc' = "gitJoin"
  /\ UNCHANGED <<argv, repo, args, exitCode, helpShown, userPrompts, gitData,
                 userContext, recentCommits, branchName, gitDiffSummary,
                 promptTemplate, inferCalls, request, regens, warned,
                 cleanCommitMessage, displayed, copyCalls, clipboard,
                 copyFailed, errors, aiMessage, action, copyResponse,
                 input, output, stage>>

\* The first join, had it caught a rejection as getRecentCommits and
\* getBranchName do: the failed call is settled and the run goes on.
GitSubDoneCaught ==
  /\ pc = "gitJoin"
  /\ \E name \in {"status", "diff"}, ok \in BOOLEAN :
       /\ sub[name] = "pending"
       /\ sub' = [sub EXCEPT ![name] = IF ok THEN "ok" ELSE "failed"]
       /\ exitCode' = exitCode
       /\ Report({})
       /\ pc' = IF \A n \in {"status", "diff"} : sub'[n] # "pending"
                  THEN "gitJoined" ELSE pc
  /\ UNCHANGED <<argv, repo, args, helpShown, gitCalls, userPrompts, gitData,
                 userContext, recentCommits, branchName, gitDiffSummary,
                 promptTemplate, inferCalls, request, regens, warned,
                 cleanCommitMessage, displayed, copyCalls, clipboard,
                 copyFailed, aiMessage, action, copyResponse, input,
                 output, stage>>

\* One execAsync call of Promise.all([name-status, diff]) settles. A
\* rejection rejects the Promise.all at once: getGitData rethrows and the
\* catch of main() calls process.exit(1).
GitSubDone ==
  /\ pc = "gitJoin"
  /\ \E name \in {"status", "diff"}, ok \in BOOLEAN :
       /\ sub[name] = "pending"
       /\ sub' = [sub EXCEPT ![name] = IF ok THEN "ok" ELSE "failed"]
       /\ IF ~ok THEN MainCatch("gitData")
          ELSE /\ exitCode' = exitCode
               /\ Report({})
               /\ pc' = IF \A n \in {"status", "diff"} : sub'[n] = "ok"
                          THEN "gitJoined" ELSE pc
  /\ UNCHANGED <<argv, repo, args, helpShown, gitCalls, userPrompts, gitData,
                 userContext, recentCommits, branchName, gitDiffSummary,
                 promptTemplate, inferCalls, request, regens, warned,
                 cleanCommitMessage, displayed, copyCalls, clipboard,
                 copyFailed, aiMessage, action, copyResponse, input,
                 output, stage>>

\* getGitData after the Promise.all resolved: the trimmed outputs, or empty
\* strings and hasStaged: false when nothing is staged
GitJoined ==
  /\ pc = "gitJoined"
  /\ gitData' =
       IF Trim(SubOut("status")) = <<>>
         THEN [gitStagedChanges |-> <<>>, gitDiff |-> <<>>, hasStaged |-> FALSE]
         ELSE [gitStagedChanges |-> Trim(SubOut("status")),
               gitDiff |-> Trim(SubOut("diff")), hasStaged |-> TRUE]
  /\ pc' = "context"
  /\ UNCHANGED <<argv, repo, args, exitCode, helpShown, gitCalls, userPrompts,
                 sub, userContext, recentCommits, branchName,
                 gitDiffSummary, promptTemplate, inferCalls, request,
                 regens, warned, cleanCommitMessage, displayed, copyCalls,
                 clipboard, copyFailed, errors, aiMessage, action,
                 copyResponse, input, output, stage>>

\* main(): args.context !== undefined, so the context of the command line is
\* used; then getRecentCommits and getBranchName are started
UseContext ==
  /\ pc = "context"
  /\ IsDefined(args.context)
  /\ userContext' = args.context[1]
  /\ gitCalls' = gitCalls + 2
  /\ sub' = [sub EXCEPT !["log"] = "pending", !["branch"] = "pending"]
  /\ pc' = "metaJoin"
  /\ UNCHANGED <<argv, repo, args, exitCode, helpShown, userPrompts, gitData,
                 recentCommits, branchName, gitDiffSummary, promptTemplate,
                 inferCalls, request, regens, warned, cleanCommitMessage,
                 displayed, copyCalls, clipboard, copyFailed, errors,
                 aiMessage, action, copyResponse, input, output, stage>>

\* main(): the user answers "Enter any additional context (optional): ";
\* then getRecentCommits and getBranchName are started
AskContext ==
  /\ pc = "context"
  /\ ~IsDefined(args.context)
  /\ \E answer \in ContextAnswers : userContext' = answer
  /\ userPrompts' = userPrompts + 1
  /\ gitCalls' = gitCalls + 2
  /\ sub' = [sub EXCEPT !["log"] = "pending", !["branch"] = "pending"]
  /\ pc' = "metaJoin"
  /\ UNCHANGED <<argv, repo, args, exitCode, helpShown, gitData, recentCommits,
                 branchName, gitDiffSummary, promptTemplate, inferCalls,
                 request, regens, warned, cleanCommitMessage, displayed,
                 copyCalls, clipboard, copyFailed, errors, aiMessage,
                 action, copyResponse, input, output, stage>>

\* getRecentCommits or getBranchName settles: the trimmed stdout, or "" when
\* the subprocess failed (the catch returns ""). When both have settled the
\* Promise.all resolves and main() computes the diff summary.
MetaSubDone ==
  /\ pc = "metaJoin"
  /\ \E name \in {"log", "branch"}, ok \in BOOLEAN :
       /\ sub[name] = "pending"
       /\ sub' = [sub EXCEPT ![name] = IF ok THEN "ok" ELSE "failed"]
       /\ LET result == Some(IF ok THEN Trim(SubOut(name)) ELSE <<>>)
          IN  /\ recentCommits' = IF name = "log" THEN result ELSE recentCommits
              /\ branchName' = IF name = "branch" THEN result ELSE branchName
       /\ IF \A n \in {"log", "branch"} : sub'[n] # "pending"
            THEN /\ gitDiffSummary' = Some(summarizeDiff(gitData.gitDiff))
                 /\ pc' = "template"
            ELSE /\ gitDiffSummary' = gitDiffSummary
                 /\ pc' = pc
  /\ UNCHANGED <<argv, repo, args, exitCode, helpShown, gitCalls, userPrompts,
                 gitData, userContext, promptTemplate, inferCalls, request,
                 regens, warned, cleanCommitMessage, displayed, copyCalls,
                 clipboard, copyFailed, errors, aiMessage, action,
                 copyResponse, input, output, stage>>

\* a loader that reports a path that is no regular file and goes on with
\* the default template
LoadCustomTemplateFallsBack ==
  /\ pc = "template"
  /\ Truthy(args.promptTemplate)
  /\ \E f \in CustomFiles :
       IF f.kind = "file" /\ validatePromptTemplate(f.content)
         THEN /\ promptTemplate' = Some(f.content)
              /\ pc' = "generate"
              /\ exitCode' = exitCode
              /\ Report({})
         ELSE IF f.kind \in {"missing", "directory"}
           THEN /\ promptTemplate' = Some(ShippedPrompt)
                /\ pc' = "generate"
                /\ exitCode' = exitCode
                /\ Report({"templatePath"})
         ELSE /\ promptTemplate' =
                   IF f.kind = "file" THEN Some(f.content) ELSE promptTemplate
              /\ Report({CASE f.kind = "file" -> "templateInvalid"
                           [] OTHER -> "templateRead"})
              /\ Exit(1)
  /\ UNCHANGED <<argv, repo, args, helpShown, gitCalls, userPrompts, sub,
                 gitData, userContext, recentCommits, branchName,
                 gitDiffSummary, inferCalls, request, regens, warned,
                 cleanCommitMessage, displayed, copyCalls, clipboard,
                 copyFailed, aiMessage, action, copyResponse, input,
                 output, stage>>

\* main(): args.promptTemplate is set: loadPromptTemplate(path) exits with 1
\* unless the path is a readable file, validatePromptTemplate exits with 1
\* unless every required placeholder is in it
LoadCustomTemplate ==
  /\ pc = "template"
  /\ Truthy(args.promptTemplate)
  /\ \E f \in CustomFiles :
       IF f.kind = "file" /\ validatePromptTemplate(f.content)
         THEN /\ promptTemplate' = Some(f.content)
              /\ pc' = "generate"
              /\ exitCode' = exitCode
              /\ Report({})
         ELSE /\ promptTemplate' =
                   IF f.kind = "file" THEN Some(f.content) ELSE promptTemplate
              /\ Report({CASE f.kind = "file" -> "templateInvalid"
                           [] f.kind = "unreadable" -> "templateRead"
                           [] OTHER -> "templatePath"})
              /\ Exit(1)
  /\ UNCHANGED <<argv, repo, args, helpShown, gitCalls, userPrompts, sub,
                 gitData, userContext, recentCommits, branchName,
                 gitDiffSummary, inferCalls, request, regens, warned,
                 cleanCommitMessage, displayed, copyCalls, clipboard,
                 copyFailed, aiMessage, action, copyResponse, input,
                 output, stage>>

\* main(): no args.promptTemplate: loadPromptTemplate() reads prompt.md
\* beside the script and exits with 1 when it cannot be read; the text is
\* not validated
LoadDefaultTemplate ==
  /\ pc = "template"
  /\ ~Truthy(args.promptTemplate)
  /\ \E f \in DefaultFiles :
       IF f.kind = "file"
         THEN /\ promptTemplate' = Some(f.content)
              /\ pc' = "generate"
              /\ exitCode' = exitCode
              /\ Report({})
         ELSE /\ promptTemplate' = promptTemplate
              /\ Report({"templateRead"})
              /\ Exit(1)
  /\ UNCHANGED <<argv, repo, args, helpShown, gitCalls, userPrompts, sub,
                 gitData, userContext, recentCommits, branchName,
                 gitDiffSummary, inferCalls, request, regens, warned,
                 cleanCommitMessage, displayed, copyCalls, clipboard,
                 copyFailed, aiMessage, action, copyResponse, input,
                 output, stage>>

\* a generation that gathers the staged changes again when it is a
\* regeneration
InferCallRereadsGit ==
  /\ pc = "generate"
  /\ LET values == valuesOf(gitData, userContext, recentCommits[1], branchName[1],
                            gitDiffSummary[1], useConventionalOf(args))
     IN  request' = Some([model |-> IF Truthy(args.model) THEN args.model[1]
                                                          ELSE DefaultModel,
                          prompt |-> fillTemplate(promptTemplate[1], values)])
  /\ inferCalls' = inferCalls + 1
  /\ gitCalls' = IF regens > 0 THEN gitCalls + 3 ELSE gitCalls
  /\ pc' = "inferring"
  /\ UNCHANGED <<argv, repo, args, exitCode, helpShown, userPrompts, sub,
                 gitData, userContext, recentCommits, branchName,
                 gitDiffSummary, promptTemplate, regens, warned,
                 cleanCommitMessage, displayed, copyCalls, clipboard,
                 copyFailed, errors, aiMessage, action, copyResponse,
                 input, output, stage>>

\* generateCommitMessage up to await ollama.generate: the template is
\* filled and the request is sent. The text main() loaded is not empty
\* (DefaultFiles, CustomFiles after validation), so the branch
\* if (promptTemplate) is the one taken.
InferCall ==
  /\ pc = "generate"
  /\ LET values == valuesOf(gitData, userContext, recentCommits[1], branchName[1],
                            gitDiffSummary[1], useConventionalOf(args))
     IN  request' = Some([model |-> IF Truthy(args.model) THEN args.model[1]
                                                          ELSE DefaultModel,
                          prompt |-> fillTemplate(promptTemplate[1], values)])
  /\ inferCalls' = inferCalls + 1
  /\ pc' = "inferring"
  /\ UNCHANGED <<argv, repo, args, exitCode, helpShown, gitCalls, userPrompts,
                 sub, gitData, userContext, recentCommits, branchName,
                 gitDiffSummary, promptTemplate, regens, warned,
                 cleanCommitMessage, displayed, copyCalls, clipboard,
                 copyFailed, errors, aiMessage, action, copyResponse,
                 input, output, stage>>

\* The first generation returns. A throw reaches the catch of main():
\* process.exit(1). An empty message is "Failed to generate commit message."
\* and main() returns. Otherwise the message is cleaned and shown, and main()
\* goes to the automatic copy or to the interactive loop.
InferReturn ==
  /\ pc = "inferring"
  /\ regens = 0
  /\ \E o \in InferOutcomes :
       LET commitMessage == aiMessageOf(o.text)
           clean == cleanAndFormatMessage(commitMessage, args.conventionalType,
                                          args.ticketID)
       IN  IF ~o.ok
             THEN /\ MainCatch("generate")
                  /\ UNCHANGED <<warned, cleanCommitMessage, displayed, aiMessage>>
           ELSE IF commitMessage = <<>>
             THEN /\ Exit(0)
                  /\ Report({"failed"})
                  /\ warned' = TRUE
                  /\ aiMessage' = Some(commitMessage)
                  /\ UNCHANGED <<cleanCommitMessage, displayed>>
           ELSE /\ warned' = (warned \/ isGeneric(commitMessage))
                /\ aiMessage' = Some(commitMessage)
                /\ cleanCommitMessage' = Some(clean)
                /\ displayed' = Append(displayed, clean)
                /\ pc' = IF args.autoCopy THEN "autoCopy" ELSE "ask"
                /\ exitCode' = exitCode
                /\ Report({})
  /\ UNCHANGED <<argv, repo, args, helpShown, gitCalls, userPrompts, sub,
                 gitData, userContext, recentCommits, branchName,
                 gitDiffSummary, promptTemplate, inferCalls, request,
                 regens, copyCalls, clipboard, copyFailed, action,
                 copyResponse, input, output, stage>>

\* a regeneration whose result is shown but not kept for the copy
RegenReturnShowsOnly ==
  /\ pc = "inferring"
  /\ regens > 0
  /\ \E o \in InferOutcomes :
       LET newMsg == aiMessageOf(o.text)
           clean == refineCommitMessage(newMsg, gitData)
       IN  IF ~o.ok
             THEN /\ MainCatch("generate")
                  /\ UNCHANGED <<warned, cleanCommitMessage, displayed, aiMessage>>
             ELSE /\ warned' = (warned \/ isGeneric(newMsg))
                  /\ aiMessage' = Some(newMsg)
                  /\ cleanCommitMessage' = cleanCommitMessage
                  /\ displayed' = Append(displayed, clean)
                  /\ pc' = "ask"
                  /\ exitCode' = exitCode
                  /\ Report({})
  /\ UNCHANGED <<argv, repo, args, helpShown, gitCalls, userPrompts, sub,
                 gitData, userContext, recentCommits, branchName,
                 gitDiffSummary, promptTemplate, inferCalls, request,
                 regens, copyCalls, clipboard, copyFailed, action,
                 copyResponse, input, output, stage>>

\* A regeneration returns: main() calls refineCommitMessage(newMsg, gitData,
\* args, ...), whose second parameter, named args, is bound to gitData. The
\* result is shown whatever it is, and the loop asks again.
RegenReturn ==
  /\ pc = "inferring"
  /\ regens > 0
  /\ \E o \in InferOutcomes :
       LET newMsg == aiMessageOf(o.text)
           clean == refineCommitMessage(newMsg, gitData)
       IN  IF ~o.ok
             THEN /\ MainCatch("generate")
                  /\ UNCHANGED <<warned, cleanCommitMessage, displayed, aiMessage>>
             ELSE /\ warned' = (warned \/ isGeneric(newMsg))
                  /\ aiMessage' = Some(newMsg)
                  /\ cleanCommitMessage' = Some(clean)
                  /\ displayed' = Append(displayed, clean)
                  /\ pc' = "ask"
                  /\ exitCode' = exitCode
                  /\ Report({})
  /\ UNCHANGED <<argv, repo, args, helpShown, gitCalls, userPrompts, sub,
                 gitData, userContext, recentCommits, branchName,
                 gitDiffSummary, promptTemplate, inferCalls, request,
                 regens, copyCalls, clipboard, copyFailed, action,
                 copyResponse, input, output, stage>>

\* copyToClipboard(text): true when the clipboard took the text, false (and
\* no throw) when clipboardy failed
CopyToClipboard(ok) ==
  /\ copyCalls' = copyCalls + 1
  /\ clipboard' = IF ok THEN cleanCommitMessage ELSE clipboard
  /\ copyFailed' = ~ok
  /\ Report(IF ok THEN {} ELSE {"clipboard"})

\* the automatic copy, had a failed copy been fatal
AutoCopyFatal ==
  /\ pc = "autoCopy"
  /\ \E ok \in BOOLEAN : CopyToClipboard(ok) /\ Exit(IF ok THEN 0 ELSE 1)
  /\ UNCHANGED <<argv, repo, args, helpShown, gitCalls, userPrompts, sub,
                 gitData, userContext, recentCommits, branchName,
                 gitDiffSummary, promptTemplate, inferCalls, request,
                 regens, warned, cleanCommitMessage, displayed, aiMessage,
                 action, copyResponse, input, output, stage>>

\* main() with args.autoCopy: copy and process.exit(0)
AutoCopy ==
  /\ pc = "autoCopy"
  /\ \E ok \in BOOLEAN : CopyToClipboard(ok)
  /\ Exit(0)
  /\ UNCHANGED <<argv, repo, args, helpShown, gitCalls, userPrompts, sub,
                 gitData, userContext, recentCommits, branchName,
                 gitDiffSummary, promptTemplate, inferCalls, request,
                 regens, warned, cleanCommitMessage, displayed, aiMessage,
                 action, copyResponse, input, output, stage>>

\* action.toLowerCase(), without the trim
NormalisedUntrimmed(answer) == ToLowerCase(answer)

\* action.trim().toLowerCase()
Normalised(answer) == ToLowerCase(Trim(answer))

\* the answer 'r', had the loop asked again without a new generation
AnswerRegenerateAsksAgain ==
  /\ pc = "ask"
  /\ regens < MaxRegen
  /\ \E answer \in LoopAnswers :
       /\ Normalised(answer) = <<"r">>
       /\ action' = Some(answer)
  /\ userPrompts' = userPrompts + 1
  /\ regens' = regens + 1
  /\ pc' = "ask"
  /\ UNCHANGED <<argv, repo, args, exitCode, helpShown, gitCalls, sub, gitData,
                 userContext, recentCommits, branchName, gitDiffSummary,
                 promptTemplate, inferCalls, request, warned,
                 cleanCommitMessage, displayed, copyCalls, clipboard,
                 copyFailed, errors, aiMessage, copyResponse, input,
                 output, stage>>

\* the loop: the answer is 'r': generateCommitMessage is called again
AnswerRegenerate ==
  /\ pc = "ask"
  /\ regens < MaxRegen
  /\ \E answer \in LoopAnswers :
       /\ Normalised(answer) = <<"r">>
       /\ action' = Some(answer)
  /\ userPrompts' = userPrompts + 1
  /\ regens' = regens + 1
  /\ pc' = "generate"
  /\ UNCHANGED <<argv, repo, args, exitCode, helpShown, gitCalls, sub, gitData,
                 userContext, recentCommits, branchName, gitDiffSummary,
                 promptTemplate, inferCalls, request, warned,
                 cleanCommitMessage, displayed, copyCalls, clipboard,
                 copyFailed, errors, aiMessage, copyResponse, input,
                 output, stage>>

\* the loop: the answer is 'a' or the empty line: copy and process.exit(0)
AnswerAccept ==
  /\ pc = "ask"
  /\ \E answer \in LoopAnswers :
       /\ Normalised(answer) # <<"r">>
       /\ Normalised(answer) = <<"a">> \/ answer = <<>>
       /\ action' = Some(answer)
  /\ userPrompts' = userPrompts + 1
  /\ \E ok \in BOOLEAN : CopyToClipboard(ok)
  /\ Exit(0)
  /\ UNCHANGED <<argv, repo, args, helpShown, gitCalls, sub, gitData,
                 userContext, recentCommits, branchName, gitDiffSummary,
                 promptTemplate, inferCalls, request, regens, warned,
                 cleanCommitMessage, displayed, aiMessage, copyResponse,
                 input, output, stage>>

\* the loop: the answer is 'q': process.exit(0) without copying
AnswerQuit ==
  /\ pc = "ask"
  /\ \E answer \in LoopAnswers :
       /\ Normalised(answer) # <<"r">>
       /\ ~(Normalised(answer) = <<"a">> \/ answer = <<>>)
       /\ Normalised(answer) = <<"q">>
       /\ action' = Some(answer)
  /\ userPrompts' = userPrompts + 1
  /\ Exit(0)
  /\ UNCHANGED <<argv, repo, args, helpShown, gitCalls, sub, gitData,
                 userContext, recentCommits, branchName, gitDiffSummary,
                 promptTemplate, inferCalls, request, regens, warned,
                 cleanCommitMessage, displayed, copyCalls, clipboard,
                 copyFailed, errors, aiMessage, copyResponse, input,
                 output, stage>>

\* the loop: any other answer breaks out of it, to the copy question
AnswerOther ==
  /\ pc = "ask"
  /\ \E answer \in LoopAnswers :
       /\ Normalised(answer) # <<"r">>
       /\ ~(Normalised(answer) = <<"a">> \/ answer = <<>>)
       /\ Normalised(answer) # <<"q">>
       /\ action' = Some(answer)
  /\ userPrompts' = userPrompts + 1
  /\ pc' = "copyPrompt"
  /\ UNCHANGED <<argv, repo, args, exitCode, helpShown, gitCalls, sub, gitData,
                 userContext, recentCommits, branchName, gitDiffSummary,
                 promptTemplate, inferCalls, request, regens, warned,
                 cleanCommitMessage, displayed, copyCalls, clipboard,
                 copyFailed, errors, aiMessage, copyResponse, input,
                 output, stage>>

\* "Copy to clipboard? (Y/n): ": copy unless the answer is n or no; then
\* process.exit(0)
CopyPrompt ==
  /\ pc = "copyPrompt"
  /\ \E answer \in CopyAnswers :
       /\ copyResponse' = Some(answer)
       /\ IF Normalised(answer) # <<"n">> /\ Normalised(answer) # <<"n", "o">>
            THEN \E ok \in BOOLEAN : CopyToClipboard(ok)
            ELSE UNCHANGED <<copyCalls, clipboard, copyFailed, errors>>
  /\ userPrompts' = userPrompts + 1
  /\ Exit(0)
  /\ UNCHANGED <<argv, repo, args, helpShown, gitCalls, sub, gitData,
                 userContext, recentCommits, branchName, gitDiffSummary,
                 promptTemplate, inferCalls, request, regens, warned,
                 cleanCommitMessage, displayed, aiMessage, action, input,
                 output, stage>>

Next ==
  \/ ParseArgs
  \/ RevParse
  \/ QuietCheck
  \/ GitSubDone
  \/ GitJoined
  \/ UseContext
  \/ AskContext
  \/ MetaSubDone
  \/ LoadCustomTemplate
  \/ LoadDefaultTemplate
  \/ InferCall
  \/ InferReturn
  \/ RegenReturn
  \/ AutoCopy
  \/ AnswerRegenerate
  \/ AnswerAccept
  \/ AnswerQuit
  \/ AnswerOther
  \/ CopyPrompt

Spec == Init /\ [][Next]_vars

\* the argument lists of the runs checked for progress: no option, the
\* automatic copy, a context, a template path, the usage
LiveArgLists ==
  {<<>>, <<<<"-", "c">>>>, <<<<"-", "c", "t", "x">>>>, <<<<"-", "p", "t">>, CustomPath>>, <<<<"-", "-", "h", "e", "l", "p">>>>}

InitLive == Init /\ argv \in LiveArgLists

\* the step InferCall as a change of pc alone: generateCommitMessage
\* reaches ollama.generate
InferCallStarts == pc = "generate" /\ pc' = "inferring"

\* the runs of main() with the progress the claim about the loop assumes:
\* a started generation reaches the provider, every inference call
\* returns, the copy question is answered, and the loop question gets an
\* answer other than 'r' at last
SpecLive ==
  /\ InitLive
  /\ [][Next]_vars
  /\ WF_pc(InferCallStarts)
  /\ WF_vars(InferReturn \/ RegenReturn)
  /\ WF_vars(CopyPrompt)
  /\ SF_vars(AnswerAccept \/ AnswerQuit \/ AnswerOther)
(***************************************************************************)
(* The function specifications: one function applied to bounded inputs.    *)
(***************************************************************************)
\* main() is not running
MainIdle ==
  /\ argv = <<>>
  /\ repo = "none"
  /\ pc = "idle"
  /\ args = EmptyArgs
  /\ exitCode = -1
  /\ helpShown = FALSE
  /\ gitCalls = 0
  /\ userPrompts = 0
  /\ sub = SubIdle
  /\ gitData = NoGitData
  /\ userContext = <<>>
  /\ recentCommits = Undefined
  /\ branchName = Undefined
  /\ gitDiffSummary = Undefined
  /\ promptTemplate = Undefined
  /\ inferCalls = 0
  /\ request = Undefined
  /\ regens = 0
  /\ warned = FALSE
  /\ cleanCommitMessage = Undefined
  /\ displayed = <<>>
  /\ copyCalls = 0
  /\ clipboard = Undefined
  /\ copyFailed = FALSE
  /\ errors = {}
  /\ aiMessage = Undefined
  /\ action = Undefined
  /\ copyResponse = Undefined

(***************************************************************************)
(* SpecValidate: validatePromptTemplate.                                   *)
(***************************************************************************)
\* every placeholder a template text may name, in the order of prompt.md
KnownPlaceholders ==
  <<PhConventionalText, PhBranchName, PhRecentCommits, PhGitStagedChanges,
    PhGitDiff, PhGitDiffSummary, PhUserContext, PhExamples, PhTicketID>>

\* text that is no placeholder by itself: a token left open, the end of a
\* token, a closing brace, and a placeholder in another case
StrayPieces == {<<"{", "g", "i", "t", "D", "i", "f", "f">>, <<"S", "u", "m", "m", "a", "r", "y", "}">>, <<"}">>, <<"{", "g", "i", "t", "d", "i", "f", "f", "}">>}

\* a template with the placeholders of KnownPlaceholders at the positions
\* of picked, each on a line of its own, and the stray text after them
TemplateOf(picked, stray) ==
  Flatten([i \in 1..Len(KnownPlaceholders) |->
             IF i \in picked THEN KnownPlaceholders[i] \o <<"\n">> ELSE <<>>])
    \o Flatten(stray)

ValidateInputs ==
  {TemplateOf(picked, stray) :
     picked \in SUBSET (1..Len(KnownPlaceholders)),
     stray \in SeqsUpTo(StrayPieces, MaxExtra)}

InitValidate ==
  /\ MainIdle
  /\ input \in ValidateInputs
  /\ output = <<>>
  /\ stage = "input"

\* validatePromptTemplate(template): returns true, or prints the missing
\* placeholders and calls process.exit(1)
Validate ==
  /\ stage = "input"
  /\ output' = [accepted |-> validatePromptTemplate(input),
                reported |-> missingPlaceholders(input),
                exitCode |-> IF validatePromptTemplate(input) THEN -1 ELSE 1]
  /\ stage' = "validated"
  /\ UNCHANGED <<input, mainVars>>

NextValidate == Validate

SpecValidate == InitValidate /\ [][NextValidate]_vars

(***************************************************************************)
(* SpecFill: fillTemplate, and the chained replace of the first variant.   *)
(***************************************************************************)
\* the pieces a template is built from: placeholders with a value, one
\* without ({ticketID}), one named like a member of Object.prototype, and
\* plain text
FillPieces ==
  {PhGitStagedChanges, PhGitDiff, PhUserContext, PhTicketID,
   <<"{", "c", "o", "n", "s", "t", "r", "u", "c", "t", "o", "r", "}">>, <<" ", "a", "n", "d", " ">>, <<"{">>}

FillTemplates == {Flatten(ps) : ps \in SeqsUpTo(FillPieces, MaxPieces)}

\* the git data substituted: plain text, or text that itself holds
\* placeholder-like text and a replacement pattern
FillGitData ==
  { [gitStagedChanges |-> <<"M", " ", "f", ".", "j", "s">>, gitDiff |-> <<"+", "x">>, hasStaged |-> TRUE],
    [gitStagedChanges |-> <<"M", " ", "{", "g", "i", "t", "D", "i", "f", "f", "}">>, gitDiff |-> <<"+", "$", "&", " ", "{", "u", "s", "e", "r", "C", "o", "n", "t", "e", "x", "t", "}">>,
     hasStaged |-> TRUE] }

FillValues ==
  {valuesOf(gd, <<"w", "i", "p">>, <<"a", "b", "c", "1", " ", "i", "n", "i", "t">>, <<"m", "a", "i", "n">>, <<"F", "i", "l", "e", "s", " ", "c", "h", "a", "n", "g", "e", "d", ":", " ", "f", ".", "j", "s">>, FALSE) :
     gd \in FillGitData}

InitFill ==
  /\ MainIdle
  /\ input \in [template : FillTemplates, values : FillValues]
  /\ output = <<>>
  /\ stage = "input"

\* prompt = fillTemplate(promptTemplate, values)
Fill ==
  /\ stage = "input"
  /\ output' = fillTemplate(input.template, input.values)
  /\ stage' = "filled"
  /\ UNCHANGED <<input, mainVars>>

\* prompt = promptTemplate.replace(...).replace(...).replace(...)
ChainFill ==
  /\ stage = "input"
  /\ output' = chainReplace(input.template, input.values)
  /\ stage' = "chained"
  /\ UNCHANGED <<input, mainVars>>

NextFill == Fill \/ ChainFill

SpecFill == InitFill /\ [][NextFill]_vars

(***************************************************************************)
(* SpecClean: the cleaning of a raw model output, generateCommitMessage    *)
(* followed by cleanAndFormatMessage as main() calls them.                 *)
(***************************************************************************)
\* the pieces the inner text of a raw output is built from
MsgPieces == {<<"F", "i", "x">>, <<" ">>, <<"'">>, <<"\t">>, <<"\n">>, <<"(", "A", "B", "-", "1", ")">>}

Msgs == {Flatten(ps) : ps \in SeqsUpTo(MsgPieces, MaxMsgPieces)}

\* white space before and after the text
LeadPads == {<<>>, <<" ", " ">>}

TrailPads == {<<>>, <<" ", "\n">>}

\* quote characters around the text
LeadQuotes == {<<>>, <<"'">>, <<"\"", Backtick>>}

TrailQuotes == {<<>>, <<"'">>}

\* a raw output: an inner text, wrapped in quotes, surrounded by white space
CleanInputs ==
  [lead : LeadPads, lq : LeadQuotes, msg : Msgs, rq : TrailQuotes,
   trail : TrailPads, ticketID : {Undefined, Some(TicketJira)}]

\* the text the provider returned
RawOf(in) == in.lead \o in.lq \o in.msg \o in.rq \o in.trail

InitClean ==
  /\ MainIdle
  /\ input \in CleanInputs
  /\ output = <<>>
  /\ stage = "input"

\* generateCommitMessage returns aiMessage
CleanGenerate ==
  /\ stage = "input"
  /\ output' = aiMessageOf(RawOf(input))
  /\ stage' = "generated"
  /\ UNCHANGED <<input, mainVars>>

\* main(): if (commitMessage) cleanAndFormatMessage(commitMessage, args),
\* with no custom type
CleanFormat ==
  /\ stage = "generated"
  /\ output # <<>>
  /\ output' = cleanAndFormatMessage(output, Undefined, input.ticketID)
  /\ stage' = "displayed"
  /\ UNCHANGED <<input, mainVars>>

\* main(): the message is empty, "Failed to generate commit message."
CleanFailed ==
  /\ stage = "generated"
  /\ output = <<>>
  /\ stage' = "failed"
  /\ UNCHANGED <<input, output, mainVars>>

NextClean == CleanGenerate \/ CleanFormat \/ CleanFailed

SpecClean == InitClean /\ [][NextClean]_vars


(***************************************************************************)
(* SpecFormat: applyCustomConventionalType and formatCommitMessage.        *)
(***************************************************************************)
\* the pieces a message is built from: type words, a scope, the colon, a
\* blank and a ticket reference
FormatPieces == {<<"f", "e", "a", "t">>, <<"F", "i", "x">>, <<"(", "x", ")">>, <<":">>, <<" ">>, <<"(", "A", "B", "-", "1", ")">>}

FormatMessages == {Flatten(ps) : ps \in SeqsUpTo(FormatPieces, MaxFormatPieces)}

\* the values of --type: a word, the empty string, a blank, a word in
\* blanks, and a text with a replacement pattern of String.replace
CustomTypes == {<<"f", "i", "x">>, <<>>, <<" ">>, <<" ", "d", "o", "c", "s">>, <<"$", "&", "x">>}

\* the values of --ticketid: none, a key of an issue tracker, a number
TicketIDs == {<<>>, <<"A", "B", "-", "1">>, <<"1", "2", "3">>}

InitFormat ==
  /\ MainIdle
  /\ input \in [message : FormatMessages, customType : CustomTypes,
                ticketID : TicketIDs]
  /\ output = <<>>
  /\ stage = "input"

\* applyCustomConventionalType(message, customType)
ApplyType ==
  /\ stage = "input"
  /\ output' = applyCustomConventionalType(input.message, input.customType)
  /\ stage' = "typed"
  /\ UNCHANGED <<input, mainVars>>

\* formatCommitMessage(message, ticketID)
AppendTicket ==
  /\ stage = "input"
  /\ output' = formatCommitMessage(input.message, input.ticketID)
  /\ stage' = "ticketed"
  /\ UNCHANGED <<input, mainVars>>

\* formatCommitMessage applied to its own result with the same ticket id
AppendTicketAgain ==
  /\ stage = "ticketed"
  /\ output' = [once |-> output,
                twice |-> formatCommitMessage(output, input.ticketID)]
  /\ stage' = "reticketed"
  /\ UNCHANGED <<input, mainVars>>

NextFormat == ApplyType \/ AppendTicket \/ AppendTicketAgain

SpecFormat == InitFormat /\ [][NextFormat]_vars

(***************************************************************************)
(* SpecDiff: summarizeDiff.                                                *)
(***************************************************************************)
\* the lines `git diff --cached` prints: the header of a file, of a renamed
\* file, of a file in a directory whose name ends with " b", and lines that
\* are no header; pre is the pre-image path of a header
DiffLines ==
  { [header |-> TRUE, pre |-> <<"f", "o", "o", ".", "j", "s">>, text |-> <<"d", "i", "f", "f", " ", "-", "-", "g", "i", "t", " ", "a", "/", "f", "o", "o", ".", "j", "s", " ", "b", "/", "f", "o", "o", ".", "j", "s">>],
    [header |-> TRUE, pre |-> <<"b", "a", "r">>, text |-> <<"d", "i", "f", "f", " ", "-", "-", "g", "i", "t", " ", "a", "/", "b", "a", "r", " ", "b", "/", "b", "a", "z">>],
    [header |-> TRUE, pre |-> <<"p", " ", "b", "/", "q">>, text |-> <<"d", "i", "f", "f", " ", "-", "-", "g", "i", "t", " ", "a", "/", "p", " ", "b", "/", "q", " ", "b", "/", "p", " ", "b", "/", "q">>],
    [header |-> FALSE, pre |-> <<>>, text |-> <<"i", "n", "d", "e", "x", " ", "1", ".", ".", "2", " ", "1", "0", "0", "6", "4", "4">>],
    [header |-> FALSE, pre |-> <<>>, text |-> <<"+", "d", "i", "f", "f", " ", "-", "-", "g", "i", "t", " ", "a", "/", "x", " ", "b", "/", "x">>],
    [header |-> FALSE, pre |-> <<>>, text |-> <<>>] }

\* the text of a diff: its lines, each ended by a newline
DiffText(lines) == Flatten([i \in 1..Len(lines) |-> lines[i].text \o <<"\n">>])

InitDiff ==
  /\ MainIdle
  /\ input \in SeqsUpTo(DiffLines, MaxDiffLines)
  /\ output = <<>>
  /\ stage = "input"

\* summarizeDiff(gitData.gitDiff)
Summarize ==
  /\ stage = "input"
  /\ output' = summarizeDiff(DiffText(input))
  /\ stage' = "summarized"
  /\ UNCHANGED <<input, mainVars>>

\* summarizeDiff(gitData.gitDiff) after getGitData trimmed the diff
SummarizeTrimmed ==
  /\ stage = "input"
  /\ output' = summarizeDiff(Trim(DiffText(input)))
  /\ stage' = "summarized"
  /\ UNCHANGED <<input, mainVars>>

NextDiff == Summarize \/ SummarizeTrimmed

SpecDiff == InitDiff /\ [][NextDiff]_vars

(***************************************************************************)
(* SpecArgs: parseArgs.                                                    *)
(***************************************************************************)
\* the tokens of an argument list: flags in their long or short form, a
\* value, and a flag parseArgs does not know
ArgTokens ==
  {<<"-", "h">>, <<"-", "c", "t", "x">>, <<"-", "-", "t", "y", "p", "e">>, <<"-", "t", "i", "d">>, <<"-", "-", "m", "o", "d", "e", "l">>, <<"-", "p", "t">>, <<"-", "c">>,
   <<"-", "-", "c", "o", "n", "v", "e", "n", "t", "i", "o", "n", "a", "l", "-", "f", "o", "r", "m", "a", "t">>, <<"-", "-", "d", "e", "b", "u", "g">>, <<"f", "i", "x">>, <<"-", "-", "v", "e", "r", "b", "o", "s", "e">>}

InitArgs ==
  /\ MainIdle
  /\ input \in SeqsUpTo(ArgTokens, MaxTokens)
  /\ output = <<>>
  /\ stage = "input"

\* parseArgs(): the options record, or help when showHelp() was reached
Parse ==
  /\ stage = "input"
  /\ output' = parseArgs(input)
  /\ stage' = "parsed"
  /\ UNCHANGED <<input, mainVars>>

NextArgs == Parse

SpecArgs == InitArgs /\ [][NextArgs]_vars
(***************************************************************************)
(* The claims.                                                             *)
(***************************************************************************)
\* p occurs somewhere in the text t
Occurs(t, p) ==
  \E i \in 1..(Len(t) - Len(p) + 1) : SubSeq(t, i, i + Len(p) - 1) = p

\* the token {key}
TokenOf(key) == <<"{">> \o key \o <<"}">>

\* C1: in a run where git reports no staged changes (the staged name-status
\* command succeeds with an empty output), the process exits with status 0
\* once the git data is gathered, and the inference provider is never
\* invoked.
C1_NoStagedNoInference ==
  (/\ sub["status"] = "ok" /\ sub["diff"] = "ok"
   /\ Trim(SubOut("status")) = <<>>
   /\ pc \notin {"gitJoin", "gitJoined"})
    => (pc = "exited" /\ exitCode = 0 /\ inferCalls = 0)

\* the text is post-processed with the type and the ticket id of the
\* command line: it starts with "<type>: " and ends with " (<ticketID>)"
PostProcessed(text) ==
  /\ Truthy(args.ticketID) =>
       EndsWith(text, <<" ", "(">> \o args.ticketID[1] \o <<")">>)
  /\ (IsDefined(args.conventionalType) /\ Trim(args.conventionalType[1]) # <<>>) =>
       StartsWith(text, args.conventionalType[1] \o <<":", " ">>)

\* C2: with a ticket id and/or a custom type on the command line, every
\* message that is displayed or copied to the clipboard is post-processed
\* with them, the first message and every regenerated one alike.
C2_EveryMessagePostProcessed ==
  /\ \A i \in 1..Len(displayed) : PostProcessed(displayed[i])
  /\ IsDefined(clipboard) => PostProcessed(clipboard[1])

ValueFlags ==
  ContextFlags \cup TypeFlags \cup TicketFlags \cup ModelFlags \cup TemplateFlags

RECURSIVE ScanPositions(_, _)
\* the positions of tokens that a left-to-right scan from position i reads
\* as flags: the token after a value flag is its value
ScanPositions(tokens, i) ==
  IF i > Len(tokens) THEN {}
  ELSE {i} \cup ScanPositions(tokens, IF tokens[i] \in ValueFlags THEN i + 2 ELSE i + 1)

\* C4 as stated: whenever the argument list contains --help or -h, the
\* usage is printed and the process ends with status 0 before any git
\* command, user prompt or inference call.
C4_AnyHelpTokenExits ==
  (pc # "start" /\ \E i \in 1..Len(argv) : argv[i] \in HelpFlags)
    => (helpShown /\ pc = "exited" /\ exitCode = 0
          /\ gitCalls = 0 /\ userPrompts = 0 /\ inferCalls = 0)

\* C4 as amended: the usage is printed exactly when --help or -h stands
\* where the scan reads a flag, not where it is the value of the flag before
\* it; the process then ends with status 0 before any git command, user
\* prompt, inference call or clipboard write.
C4_HelpAtFlagPositionExits ==
  pc # "start" =>
    /\ helpShown <=> \E i \in ScanPositions(argv, 1) : argv[i] \in HelpFlags
    /\ helpShown => (pc = "exited" /\ exitCode = 0 /\ gitCalls = 0
                       /\ userPrompts = 0 /\ inferCalls = 0 /\ copyCalls = 0)

\* C4, the case: --help after another flag ended the run
C4_Witness ==
  helpShown /\ pc = "exited" /\ Len(argv) > 1 /\ argv[1] \notin HelpFlags

\* the seven required placeholders, as the specification lists them
RequiredSeven ==
  {PhGitStagedChanges, PhGitDiff, PhUserContext, PhRecentCommits,
   PhBranchName, PhGitDiffSummary, PhConventionalText}

\* C5: every template that is substituted and sent to the provider, the
\* default prompt.md and a user-supplied file alike, contains all required
\* placeholders; one that does not ends the run with status 1 before any
\* inference call.
C5_EveryTemplateValidated ==
  (IsDefined(promptTemplate) /\ \E p \in RequiredSeven : ~Occurs(promptTemplate[1], p))
    => (inferCalls = 0 /\ pc = "exited" /\ exitCode = 1)

RECURSIVE PassThroughFrom(_, _, _)
\* the pass-through substitution of the specification from position i: a
\* token whose key the map supplies is replaced by its value, every other
\* token stays as it is
PassThroughFrom(template, values, i) ==
  LET tokens == {k \in i..Len(template) : TokenEnd(template, k) > 0}
  IN  IF tokens = {} THEN From(template, i)
      ELSE LET k == Min(tokens)
               e == TokenEnd(template, k)
               key == SubSeq(template, k + 1, e - 1)
           IN  SubSeq(template, i, k - 1)
                 \o (IF key \in DOMAIN values THEN values[key] ELSE SubSeq(template, k, e))
                 \o PassThroughFrom(template, values, e + 1)

\* C7: fillTemplate leaves every {name} token whose name is not a key of
\* the substitution map unchanged in the output.
C7_UnsuppliedTokensUnchanged ==
  stage = "filled" => output = PassThroughFrom(input.template, input.values, 1)

\* C8: template substitution replaces every occurrence of a placeholder it
\* has a value for, and returns the text unchanged when the template holds
\* no such placeholder. (Stated for values that hold no brace, so that a
\* placeholder left in the output comes from the template.)
C8_EveryOccurrenceReplaced ==
  stage \in {"filled", "chained"} =>
    LET supplied == IF stage = "filled" THEN DOMAIN input.values
                    ELSE {KeyGitStagedChanges, KeyGitDiff, KeyUserContext}
        plain == \A k \in DOMAIN input.values : ~Occurs(input.values[k], <<"{">>)
    IN  /\ plain => \A k \in supplied : ~Occurs(output, TokenOf(k))
        /\ (\A k \in supplied : ~Occurs(input.template, TokenOf(k)))
             => output = input.template

\* the pipeline of the specification: the first line of the text, without
\* the quote runs at its ends, trimmed, white space runs collapsed
SpecifiedPipeline(text) ==
  CollapseWhitespace(Trim(StripQuoteRuns(FirstLine(text))))

\* C9 as stated: with no type and no ticket, the message displayed for a raw
\* model output is the specified pipeline applied to the raw output.
C9_CleaningIsSpecifiedPipeline ==
  (stage = "displayed" /\ ~IsDefined(input.ticketID))
    => output = SpecifiedPipeline(RawOf(input))

\* C9 as amended: the message displayed is the specified pipeline applied to
\* the raw output trimmed as a whole (trim comes first, before the first
\* line is taken), and when no message is displayed that is empty.
C9_CleaningIsPipelineOfTrimmed ==
  /\ (stage = "displayed" /\ ~IsDefined(input.ticketID))
       => output = SpecifiedPipeline(Trim(RawOf(input)))
  /\ stage = "failed" => SpecifiedPipeline(Trim(RawOf(input))) = <<>>

\* C9, the case: a quoted text after leading white space, where the two
\* orders differ
C9_Witness ==
  /\ stage = "displayed"
  /\ ~IsDefined(input.ticketID)
  /\ input.lead # <<>>
  /\ input.lq # <<>>
  /\ output # SpecifiedPipeline(RawOf(input))

\* the raw output is a single-line text wrapped in quote characters
Wrapped(in) == in.lq # <<>> /\ in.rq # <<>> /\ ~Occurs(in.msg, <<"\n">>)

\* " (<ticketID>)" when a ticket id is supplied, nothing otherwise
TicketSuffix(in) ==
  IF Truthy(in.ticketID) THEN <<" ", "(">> \o in.ticketID[1] \o <<")">> ELSE <<>>

\* the text ends with a ticket reference: "(", capital letters, "-",
\* digits, ")"
EndsWithTicketRef(m) ==
  \E a, u \in 1..Len(m) :
    /\ a + 1 < u /\ u + 1 < Len(m)
    /\ m[a] = "(" /\ m[u] = "-" /\ m[Len(m)] = ")"
    /\ \A j \in (a + 1)..(u - 1) : m[j] \in UpperSet
    /\ \A j \in (u + 1)..(Len(m) - 1) : m[j] \in Digits

\* the text is already clean: not empty, no white space or quote character
\* at either end, and no white space but single blanks
CleanText(m) ==
  /\ m # <<>>
  /\ m[1] \notin WhiteSpace \cup QuoteChars
  /\ m[Len(m)] \notin WhiteSpace \cup QuoteChars
  /\ \A i \in 1..Len(m) :
       m[i] \in WhiteSpace => (m[i] = " " /\ m[i + 1] \notin WhiteSpace)

\* C10 as stated: for a single-line message M wrapped in quote characters
\* and surrounded by white space, the displayed message is M followed by
\* " (T)" with a ticket id T, and M with none.
C10_WrappedMessageDisplayed ==
  (stage = "displayed" /\ Wrapped(input))
    => output = input.msg \o TicketSuffix(input)

\* C10 as amended: the same, for a message M that is already clean and,
\* with a ticket id, does not end with a ticket reference itself.
C10_CleanWrappedMessageDisplayed ==
  (/\ stage \in {"displayed", "failed"}
   /\ Wrapped(input)
   /\ CleanText(input.msg)
   /\ Truthy(input.ticketID) => ~EndsWithTicketRef(input.msg))
    => (stage = "displayed" /\ output = input.msg \o TicketSuffix(input))

\* C10, the case: a clean message of several words, in quotes and white
\* space, displayed with the ticket id
C10_Witness ==
  /\ stage = "displayed"
  /\ Wrapped(input)
  /\ CleanText(input.msg)
  /\ Occurs(input.msg, <<" ">>)
  /\ input.lead # <<>>
  /\ input.trail # <<>>
  /\ Truthy(input.ticketID)
  /\ output = input.msg \o TicketSuffix(input)


\* p is a conventional prefix: letters, an optional scope in parentheses,
\* optional white space, a colon, optional white space
IsConventionalPrefix(p) ==
  \E l, c \in 1..Len(p) :
    /\ l < c
    /\ p[c] = ":"
    /\ \A i \in 1..l : p[i] \in LowerSet \cup UpperSet
    /\ \A i \in (c + 1)..Len(p) : p[i] \in WhiteSpace
    /\ \/ \A i \in (l + 1)..(c - 1) : p[i] \in WhiteSpace
       \/ \E s \in (l + 2)..(c - 1) :
            /\ p[l + 1] = "(" /\ p[s] = ")"
            /\ \A i \in (l + 2)..(s - 1) : p[i] # ")"
            /\ \A i \in (s + 1)..(c - 1) : p[i] \in WhiteSpace

\* the length of the longest conventional prefix m starts with, 0 for none
PrefixLength(m) ==
  LET ends == {e \in 1..Len(m) : IsConventionalPrefix(SubSeq(m, 1, e))}
  IN  IF ends = {} THEN 0 ELSE CHOOSE e \in ends : \A f \in ends : f <= e

\* C11: applyCustomConventionalType with a type that is not blank replaces
\* the conventional prefix of the message by "<customType>: ", or prepends
\* "<customType>: " when there is none; the result starts with
\* "<customType>: " and no longer contains the replaced prefix. With an
\* empty or blank type the message is returned unchanged.
C11_TypeReplacesPrefix ==
  stage = "typed" =>
    LET m == input.message
        t == input.customType
        n == PrefixLength(m)
    IN  IF Trim(t) = <<>> THEN output = m
        ELSE /\ output = t \o <<":", " ">> \o From(m, n + 1)
             /\ n > 0 => ~Occurs(output, SubSeq(m, 1, n))

\* t is the key of an issue: capital letters, "-", digits
IsIssueKey(t) ==
  \E u \in 2..(Len(t) - 1) :
    /\ t[u] = "-"
    /\ \A j \in 1..(u - 1) : t[j] \in UpperSet
    /\ \A j \in (u + 1)..Len(t) : t[j] \in Digits

IsTicketRef(r) ==
  /\ EndsWithTicketRef(r)
  /\ \A i \in 1..Len(r) : r[i] = "(" <=> i = 1

\* m without the ticket reference at its end and the white space around
\* the reference; m itself when it does not end with a reference
WithoutTicketRef(m) ==
  LET cuts == {k \in 0..Len(m) :
                 /\ IsTicketRef(Trim(From(m, k + 1)))
                 /\ k > 0 => m[k] \notin WhiteSpace}
  IN  IF cuts = {} THEN m ELSE SubSeq(m, 1, CHOOSE k \in cuts : TRUE)

RECURSIVE PreImagePaths(_)
PreImagePaths(lines) ==
  IF lines = <<>> THEN <<>>
  ELSE (IF Head(lines).header THEN <<Head(lines).pre>> ELSE <<>>)
         \o PreImagePaths(Tail(lines))

\* C13: summarizeDiff returns "Files changed: " followed by the pre-image
\* paths of all header lines `diff --git a/<path> b/...`, separated by
\* ", ", in first-seen order and not de-duplicated, and "No files changed"
\* exactly when the diff has no header line.
C13_SummaryListsPreImagePaths ==
  stage = "summarized" =>
    LET paths == PreImagePaths(input)
    IN  output = IF paths = <<>> THEN <<"N", "o", " ", "f", "i", "l", "e", "s", " ", "c", "h", "a", "n", "g", "e", "d">>
                 ELSE <<"F", "i", "l", "e", "s", " ", "c", "h", "a", "n", "g", "e", "d", ":", " ">> \o JoinWith(paths, <<",", " ">>)

\* the value of the last flag of flags the scan of tokens reads, "" when
\* that flag is the last token, undefined when the scan reads none
LastValueOf(tokens, flags) ==
  LET at == {i \in ScanPositions(tokens, 1) : tokens[i] \in flags}
  IN  IF at = {} THEN Undefined
      ELSE LET i == CHOOSE k \in at : \A j \in at : j <= k
           IN  Some(IF i < Len(tokens) THEN tokens[i + 1] ELSE <<>>)

\* the scan of tokens reads a flag of flags
FlagRead(tokens, flags) ==
  \E i \in ScanPositions(tokens, 1) : tokens[i] \in flags

\* C14: parseArgs is one left-to-right scan in which every flag that takes
\* a value consumes the next token as its value whatever that token is, a
\* flag included, and records the empty string when it is the last token;
\* a token that is no known flag and no value leaves the record unchanged.
C14_ValueFlagsConsumeNextToken ==
  (stage = "parsed" /\ ~output.help) =>
    output.result =
      [context |-> LastValueOf(input, {<<"-", "-", "c", "o", "n", "t", "e", "x", "t">>, <<"-", "c", "t", "x">>}),
       useAiConventional |-> FlagRead(input, {<<"-", "-", "c", "o", "n", "v", "e", "n", "t", "i", "o", "n", "a", "l", "-", "f", "o", "r", "m", "a", "t">>, <<"-", "c", "f">>}),
       conventionalType |-> LastValueOf(input, {<<"-", "-", "t", "y", "p", "e">>, <<"-", "t">>}),
       ticketID |-> LastValueOf(input, {<<"-", "-", "t", "i", "c", "k", "e", "t", "i", "d">>, <<"-", "t", "i", "d">>}),
       autoCopy |-> FlagRead(input, {<<"-", "-", "c", "o", "p", "y">>, <<"-", "c">>}),
       model |-> LastValueOf(input, {<<"-", "-", "m", "o", "d", "e", "l">>, <<"-", "m">>}),
       promptTemplate |-> LastValueOf(input, {<<"-", "-", "p", "r", "o", "m", "p", "t", "-", "t", "e", "m", "p", "l", "a", "t", "e">>, <<"-", "p", "t">>}),
       debug |-> FlagRead(input, {<<"-", "-", "d", "e", "b", "u", "g">>})]

\* C14, the case: a flag taken as the value of --type, an unknown flag, and
\* a flag without a value at the end
C14_Witness ==
  /\ stage = "parsed"
  /\ ~output.help
  /\ Len(input) = 3
  /\ input[1] \in {<<"-", "-", "t", "y", "p", "e">> } /\ input[2] = <<"-", "c">> /\ input[3] = <<"-", "t", "i", "d">>
  /\ output.result.conventionalType = Some(<<"-", "c">>)
  /\ output.result.autoCopy = FALSE
  /\ output.result.ticketID = Some(<<>>)

\* the user's answer as the loop reads it: trimmed, in lower case
Answered(answer) == ToLowerCase(Trim(answer))

\* the message is of low quality: empty, shorter than 5 characters, or
\* with "commit message" in it, in any case
LowQuality(m) ==
  \/ m = <<>>
  \/ Len(m) < 5
  \/ Occurs(ToLowerCase(m), <<"c", "o", "m", "m", "i", "t", " ", "m", "e", "s", "s", "a", "g", "e">>)

\* the last generateCommitMessage returned a message of low quality, and no
\* inference call is outstanding or has failed
LowQualityReturned ==
  /\ IsDefined(aiMessage)
  /\ LowQuality(aiMessage[1])
  /\ pc # "inferring"
  /\ "generate" \notin errors

\* C15 as stated: a low-quality result produces only a warning: the message
\* is still displayed and the run takes no failure path.
C15_LowQualityOnlyWarns ==
  LowQualityReturned =>
    /\ warned
    /\ Len(displayed) = inferCalls
    /\ "failed" \notin errors
    /\ exitCode # 1

\* C15 as amended: a low-quality result that is not empty produces only the
\* warning and is displayed; so is an empty regenerated result. An empty
\* first result is warned about, then "Failed to generate commit message."
\* is printed as an error, nothing is displayed or copied, and the run ends
\* with status 0.
C15_NonEmptyLowQualityOnlyWarns ==
  LowQualityReturned =>
    /\ warned
    /\ exitCode # 1
    /\ IF aiMessage[1] = <<>> /\ regens = 0
         THEN /\ "failed" \in errors
              /\ displayed = <<>>
              /\ cleanCommitMessage = Undefined
              /\ pc = "exited" /\ exitCode = 0
              /\ copyCalls = 0
         ELSE /\ "failed" \notin errors
              /\ Len(displayed) = inferCalls
              /\ cleanCommitMessage = Some(displayed[Len(displayed)])

\* C15, the case: a message of three characters was warned about, shown,
\* accepted and copied
C15_Witness ==
  /\ IsDefined(aiMessage)
  /\ Len(aiMessage[1]) \in 1..4
  /\ warned
  /\ pc = "exited" /\ exitCode = 0
  /\ IsDefined(clipboard)
  /\ clipboard = cleanCommitMessage

\* C16: when an inference call throws, on the first generation or on a
\* regeneration, the process exits with status 1, the provider is not
\* called again (every call was the first one or one the user asked for),
\* and nothing is written to the clipboard.
C16_InferenceFailureIsFatal ==
  "generate" \in errors =>
    /\ pc = "exited" /\ exitCode = 1
    /\ inferCalls = regens + 1
    /\ copyCalls = 0
    /\ clipboard = Undefined

\* C16, the case: the call of a regeneration threw
C16_Witness ==
  "generate" \in errors /\ regens > 0 /\ Len(displayed) = regens

C18_ClipboardFailureNotFatal ==
  /\ copyFailed =>
       /\ pc = "exited" /\ exitCode = 0
       /\ "clipboard" \in errors /\ "main" \notin errors
       /\ clipboard = Undefined
       /\ copyCalls = 1
  /\ (pc = "exited" /\ copyCalls > 0) => exitCode = 0

\* C18, the case: the copy failed after the copy prompt
C18_Witness ==
  copyFailed /\ IsDefined(copyResponse) /\ pc = "exited"

\* C19: in the loop the answer q ends the run with status 0 without a
\* clipboard write, after any number of regenerations; the clipboard is
\* written only after an accept answer (a or the empty line), an answer
\* other than n or no to the copy prompt, or under --copy.
C19_QuitNeverCopies ==
  /\ (IsDefined(action) /\ Answered(action[1]) = <<"q">>) =>
       /\ pc = "exited" /\ exitCode = 0
       /\ copyCalls = 0
       /\ clipboard = Undefined
  /\ copyCalls > 0 =>
       \/ args.autoCopy
       \/ IsDefined(action) /\ (Answered(action[1]) = <<"a">> \/ action[1] = <<>>)
       \/ IsDefined(copyResponse) /\ Answered(copyResponse[1]) \notin {<<"n">>, <<"n", "o">>}

\* C19, the case: quit after a regeneration
C19_Witness ==
  /\ IsDefined(action)
  /\ Answered(action[1]) = <<"q">>
  /\ regens > 0
  /\ Len(displayed) = regens + 1
  /\ pc = "exited"

\* C20: with --copy or -c, once the first message is displayed the program
\* copies it and exits with status 0 without asking the loop question or
\* the copy question, and the run makes one inference call.
C20_AutoCopySkipsPrompts ==
  FlagRead(argv, {<<"-", "-", "c", "o", "p", "y">>, <<"-", "c">>}) =>
    /\ inferCalls <= 1
    /\ action = Undefined /\ copyResponse = Undefined
    /\ displayed # <<>> =>
         /\ Len(displayed) = 1 /\ inferCalls = 1
         /\ pc \in {"autoCopy", "exited"}
         /\ pc = "exited" =>
              /\ exitCode = 0
              /\ copyCalls = 1
              /\ copyFailed \/ clipboard = Some(displayed[1])

\* C20, the case: -c, the message copied, the run ended
C20_Witness ==
  /\ FlagRead(argv, {<<"-", "-", "c", "o", "p", "y">>, <<"-", "c">>})
  /\ pc = "exited"
  /\ IsDefined(clipboard)
  /\ clipboard = Some(displayed[1])


(***************************************************************************)
(* SpecModel: the model name handed to ollama.generate, in                 *)
(* src/ollama-commit.js and in src/commit-assist.js.                       *)
(***************************************************************************)
\* const result = {} of ollama-commit.js: no option is set
EmptyArgsOllamaCommit ==
  [context |-> Undefined, useAiConventional |-> FALSE,
   conventionalType |-> Undefined, ticketID |-> Undefined,
   autoCopy |-> FALSE, model |-> Undefined]

RECURSIVE ParseFromOllamaCommit(_, _, _)
\* the for loop of parseArgs of ollama-commit.js from index i (1-based)
ParseFromOllamaCommit(tokens, i, result) ==
  IF i > Len(tokens) THEN [help |-> FALSE, result |-> result]
  ELSE LET a == tokens[i]
           v == ValueAfter(tokens, i)
       IN  IF a \in HelpFlags THEN [help |-> TRUE, result |-> result]
           ELSE IF a \in ContextFlags
             THEN ParseFromOllamaCommit(tokens, i + 2, [result EXCEPT !.context = Some(v)])
           ELSE IF a \in ConventionalFlags
             THEN ParseFromOllamaCommit(tokens, i + 1,
                                        [result EXCEPT !.useAiConventional = TRUE])
           ELSE IF a \in TypeFlags
             THEN ParseFromOllamaCommit(tokens, i + 2,
                                        [result EXCEPT !.conventionalType = Some(v)])
           ELSE IF a \in TicketFlags
             THEN ParseFromOllamaCommit(tokens, i + 2, [result EXCEPT !.ticketID = Some(v)])
           ELSE IF a \in CopyFlags
             THEN ParseFromOllamaCommit(tokens, i + 1, [result EXCEPT !.autoCopy = TRUE])
           ELSE IF a \in ModelFlags
             THEN ParseFromOllamaCommit(tokens, i + 2, [result EXCEPT !.model = Some(v)])
           ELSE ParseFromOllamaCommit(tokens, i + 1, result)

\* const ollamaModel = process.env.OLLAMA_MODEL || "llama3.2:latest"
ollamaModel(env) == IF Truthy(env) THEN env[1] ELSE DefaultModel

\* model: args.model ?? ollamaModel (ollama-commit.js)
modelOfOllamaCommit(a, env) ==
  IF IsDefined(a.model) THEN a.model[1] ELSE ollamaModel(env)

\* model: args.model || "llama3.2:latest" (commit-assist.js)
modelOfCommitAssist(a) == IF Truthy(a.model) THEN a.model[1] ELSE DefaultModel

\* the tokens of an argument list: the model flag in both forms, a model
\* name, an empty argument and another flag
ModelTokens == {<<"-", "m">>, <<"-", "-", "m", "o", "d", "e", "l">>, <<"p", "h", "i", "3">>, <<>>, <<"-", "c">>}

\* process.env.OLLAMA_MODEL: unset, set to the empty string, set to a name
ModelEnvs == {Undefined, Some(<<>>), Some(<<"m", "i", "s", "t", "r", "a", "l">>)}

InitModel ==
  /\ MainIdle
  /\ input \in [tokens : SeqsUpTo(ModelTokens, MaxTokens), env : ModelEnvs]
  /\ output = <<>>
  /\ stage = "input"

\* the model field of the request each script builds for ollama.generate
ChooseModel ==
  /\ stage = "input"
  /\ output' =
       [ollamaCommit |->
          modelOfOllamaCommit(ParseFromOllamaCommit(input.tokens, 1,
                                                    EmptyArgsOllamaCommit).result,
                              input.env),
        commitAssist |-> modelOfCommitAssist(parseArgs(input.tokens).result)]
  /\ stage' = "chosen"
  /\ UNCHANGED <<input, mainVars>>

NextModel == ChooseModel

SpecModel == InitModel /\ [][NextModel]_vars

(***************************************************************************)
(* SpecInline: the first variant of src/commit-assist.js, where            *)
(* --prompt-template holds the text of the template.                       *)
(***************************************************************************)
\* validatePromptTemplate of the first variant: true, or the missing names
\* are printed and process.exit(1) is called
validatePromptTemplateV1(template) ==
  \A i \in 1..Len(requiredPlaceholdersV1) : Includes(template, requiredPlaceholdersV1[i])

\* the pieces of an inline template: the variables README.md documents,
\* the one the code names, and plain text
InlinePieces ==
  {<<"{", "g", "i", "t", "S", "t", "a", "t", "u", "s", "}">>, PhGitStagedChanges, PhGitDiff, PhUserContext, <<" ", "a", "n", "d", " ">>}

InlineTemplates == {Flatten(ps) : ps \in SeqsUpTo(InlinePieces, MaxPieces)}

InitInline ==
  /\ MainIdle
  /\ input \in [template : InlineTemplates, values : FillValues]
  /\ output = <<>>
  /\ stage = "input"

\* generateCommitMessage of the first variant with args.promptTemplate set:
\* the template is validated, then the prompt is built by the chained
\* replace and sent
GenerateInline ==
  /\ stage = "input"
  /\ output' =
       IF validatePromptTemplateV1(input.template)
         THEN [accepted |-> TRUE, exitCode |-> -1,
               prompt |-> Some(chainReplace(input.template, input.values))]
         ELSE [accepted |-> FALSE, exitCode |-> 1, prompt |-> Undefined]
  /\ stage' = "sent"
  /\ UNCHANGED <<input, mainVars>>

NextInline == GenerateInline

SpecInline == InitInline /\ [][NextInline]_vars

(***************************************************************************)
(* SpecLength: the post-processor on long messages.                        *)
(***************************************************************************)
\* a text of n characters: words of the letter a, one blank at every
\* position that is a multiple of gap (no blank when gap is 0)
LongText(n, gap) ==
  [i \in 1..n |-> IF gap > 0 /\ i % gap = 0 /\ i < n THEN " " ELSE "a"]

\* the lengths around the limits the spec and the source name
LongLengths == (MaxLength - 19)..MaxLength

LengthInputs ==
  [text : {LongText(n, gap) : n \in LongLengths, gap \in {0, 6}},
   conventionalType : {Undefined, Some(<<"f", "i", "x">>)},
   ticketID : {Undefined, Some(<<"A", "B", "-", "1">>)}]

InitLength ==
  /\ MainIdle
  /\ input \in LengthInputs
  /\ output = <<>>
  /\ stage = "input"

\* main(): generateCommitMessage returns the message made of the text of
\* the model; if (commitMessage) it goes through cleanAndFormatMessage and
\* the result is shown in the box, otherwise the failure is reported
CleanLong ==
  /\ stage = "input"
  /\ LET commitMessage == aiMessageOf(input.text)
     IN  IF commitMessage = <<>>
           THEN output' = <<>> /\ stage' = "failed"
           ELSE /\ output' = cleanAndFormatMessage(commitMessage, input.conventionalType,
                                                   input.ticketID)
                /\ stage' = "shown"
  /\ UNCHANGED <<input, mainVars>>

NextLength == CleanLong

SpecLength == InitLength /\ [][NextLength]_vars

(***************************************************************************)
(* C21: model priority.                                                    *)
(***************************************************************************)
\* the first name of the documented order that is not empty: the value of
\* the model flag, then the environment value, then the default
PriorityModel(flagValue, env) ==
  IF flagValue # Undefined /\ flagValue[1] # <<>> THEN flagValue[1]
  ELSE IF env # Undefined /\ env[1] # <<>> THEN env[1]
  ELSE <<"l", "l", "a", "m", "a", "3", ".", "2", ":", "l", "a", "t", "e", "s", "t">>

\* C21: the model name sent to the provider is the value of --model/-m when
\* the flag is given, otherwise (ollama-commit only) the value of
\* OLLAMA_MODEL, otherwise "llama3.2:latest"; the environment value is used
\* only when the flag is absent, and the name sent is never empty.
C21_ModelFollowsPriority ==
  stage = "chosen" =>
    LET flagValue == LastValueOf(input.tokens, {<<"-", "-", "m", "o", "d", "e", "l">>, <<"-", "m">>})
    IN  /\ output.ollamaCommit = PriorityModel(flagValue, input.env)
        /\ output.commitAssist = PriorityModel(flagValue, Undefined)
        /\ output.ollamaCommit # <<>>
        /\ output.commitAssist # <<>>

(***************************************************************************)
(* C22: loadPromptTemplate.                                                *)
(***************************************************************************)
\* the positions of main() after the template was loaded
AfterTemplate == {"generate", "inferring", "autoCopy", "ask", "copyPrompt"}

\* C22: when the path given with --prompt-template does not exist or is no
\* regular file the process exits with status 1 before any inference call,
\* so an inference call of a run with a path uses the text of the regular
\* file at that path; with no path given the template is the text of
\* prompt.md beside the script, and the path error is never reported.
C22_MissingPathFatalNoPathDefault ==
  /\ "templatePath" \in errors
       => (pc = "exited" /\ exitCode = 1 /\ inferCalls = 0 /\ request = Undefined)
  /\ (args.promptTemplate # Undefined /\ args.promptTemplate[1] # <<>>
        /\ (pc \in AfterTemplate \/ inferCalls > 0))
       => \E f \in CustomFiles : f.kind = "file" /\ promptTemplate = <<f.content>>
  /\ (args.promptTemplate = Undefined \/ args.promptTemplate[1] = <<>>)
       => /\ "templatePath" \notin errors
          /\ (pc \in AfterTemplate \/ inferCalls > 0)
               => \E f \in DefaultFiles : f.kind = "file" /\ promptTemplate = <<f.content>>

\* a run whose --prompt-template path is no regular file has ended with
\* status 1 without an inference call
C22_Witness ==
  /\ "templatePath" \in errors
  /\ args.promptTemplate = <<CustomPath>>
  /\ pc = "exited" /\ exitCode = 1 /\ inferCalls = 0

(***************************************************************************)
(* C23: the variables of an inline template (README.md).                   *)
(***************************************************************************)
\* the three variables README.md documents as required
DocumentedVariables == <<<<"{", "g", "i", "t", "S", "t", "a", "t", "u", "s", "}">>, <<"{", "g", "i", "t", "D", "i", "f", "f", "}">>, <<"{", "u", "s", "e", "r", "C", "o", "n", "t", "e", "x", "t", "}">>>>

\* C23: an inline template that includes {gitStatus}, {gitDiff} and
\* {userContext} is accepted by validation, and in the prompt that is sent
\* none of the three is left: each was replaced by its value.
C23_DocumentedVariablesAccepted ==
  (stage = "sent"
     /\ \A i \in 1..Len(DocumentedVariables) :
          Occurs(input.template, DocumentedVariables[i]))
    => /\ output.accepted
       /\ output.prompt # Undefined
       /\ \A i \in 1..Len(DocumentedVariables) :
            ~Includes(output.prompt[1], DocumentedVariables[i])

(***************************************************************************)
(* C24: the context of a run is produced once.                             *)
(***************************************************************************)
\* what main() gathers before the first generation
RunContext ==
  <<args, gitData, userContext, recentCommits, branchName, gitDiffSummary,
    promptTemplate>>

C25_LongMessageTruncated ==
  stage = "shown" =>
    /\ Len(output) <= 80
    /\ Len(input.text) > 80 => output = SubSeq(input.text, 1, 77) \o <<".", ".", ".">>

\* C25 as amended: the post-processor enforces no length: a clean one-line
\* text of any length is shown whole, after the custom type and before the
\* ticket reference, and nothing is cut or appended in place of its end.
C25_LongMessageShownWhole ==
  stage = "shown" =>
    /\ Occurs(output, input.text)
    /\ Len(output) >= Len(input.text)
    /\ (input.conventionalType = Undefined /\ input.ticketID = Undefined)
         => output = input.text
    /\ input.ticketID = Undefined
         => SubSeq(output, Len(output) - Len(input.text) + 1, Len(output)) = input.text

\* a message of more than 90 characters was shown with all its characters
C25_Witness ==
  /\ stage = "shown"
  /\ Len(input.text) > 90
  /\ input.conventionalType = Undefined /\ input.ticketID = Undefined
  /\ Len(output) = Len(input.text)

(***************************************************************************)
(* C26: what is copied is what was shown last.                             *)
(***************************************************************************)
\* C26: whenever the clipboard is written, the text written is the message
\* shown last: the first message, or the result of the last regeneration.
C26_ClipboardIsLastDisplayed ==
  /\ [](clipboard # Undefined
          => /\ displayed # <<>>
             /\ clipboard[1] = displayed[Len(displayed)]
             /\ Len(displayed) = regens + 1)
  /\ [][clipboard' # clipboard
          => (displayed # <<>> /\ clipboard' = <<displayed[Len(displayed)]>>
                /\ displayed' = displayed)]_vars

\* a regenerated message that differs from the first one was copied
C26_Witness ==
  /\ clipboard # Undefined
  /\ regens >= 1 /\ Len(displayed) = 2
  /\ displayed[1] # displayed[2]
  /\ clipboard[1] = displayed[2]

(***************************************************************************)
(* C27: no empty message is copied.                                        *)
(***************************************************************************)
\* C27: on every path (the first generation, or regenerations followed by
\* accept or by a positive answer to the copy question) the text written to
\* the clipboard is not empty.
C27_NoEmptyMessageCopied ==
  clipboard # Undefined => clipboard[1] # <<>>

(***************************************************************************)
(* C28: substitution is single-pass.                                       *)
(***************************************************************************)
\* the keys the chained replace of the first variant substitutes
ChainKeys == {<<"g", "i", "t", "S", "t", "a", "g", "e", "d", "C", "h", "a", "n", "g", "e", "s">>, <<"g", "i", "t", "D", "i", "f", "f">>, <<"u", "s", "e", "r", "C", "o", "n", "t", "e", "x", "t">>}

RECURSIVE VerbatimOnceFrom(_, _, _, _)
\* one pass over the template from position i: the first token of each key
\* of ChainKeys not in done is replaced by its value as it is, and the text
\* of a value is not looked at again
VerbatimOnceFrom(template, values, i, done) ==
  LET open == ChainKeys \ done
      hits == {k \in i..Len(template) :
                 \E key \in open : MatchAt(template, TokenOf(key), k)}
  IN  IF hits = {} THEN From(template, i)
      ELSE LET k == Min(hits)
               key == CHOOSE c \in open : MatchAt(template, TokenOf(c), k)
           IN  SubSeq(template, i, k - 1) \o values[key]
                 \o VerbatimOnceFrom(template, values, k + Len(TokenOf(key)),
                                     done \cup {key})

\* C28: substitution is one pass over the template: a value is inserted as
\* it is, and placeholder-like text inside a value is neither substituted
\* nor taken for the placeholder of the template. (For fillTemplate the
\* statement is made of templates without a token named like a member of
\* Object.prototype, which C7 is about.)
C28_SubstitutionIsSinglePass ==
  /\ stage = "chained"
       => output = VerbatimOnceFrom(input.template, input.values, 1, {})
  /\ (stage = "filled" /\ ~Occurs(input.template, <<"{", "c", "o", "n", "s", "t", "r", "u", "c", "t", "o", "r", "}">>))
       => output = PassThroughFrom(input.template, input.values, 1)

(***************************************************************************)
(* C29: the shape of the displayed message.                                *)
(***************************************************************************)
\* the characters a displayed message does not begin or end with: white
\* space and the three quote characters
EdgeChars == {" ", "\t", "\n", "\r", "'", "\"", Backtick}

\* C29: with no custom type and no ticket id, the displayed message is one
\* line, neither begins nor ends with white space or with a quote
\* character, and holds no run of two or more white space characters.
C29_DisplayedMessageIsClean ==
  (stage = "displayed" /\ input.ticketID = Undefined) =>
    /\ \A i \in 1..Len(output) : output[i] \notin {"\n", "\r"}
    /\ output # <<>> => (output[1] \notin EdgeChars /\ output[Len(output)] \notin EdgeChars)
    /\ \A i \in 1..(Len(output) - 1) :
         ~(output[i] \in {" ", "\t", "\n", "\r"} /\ output[i + 1] \in {" ", "\t", "\n", "\r"})

(***************************************************************************)
(* C30: progress of the interactive loop.                                  *)
(***************************************************************************)
\* C30: a step of the loop either ends the process (accept, quit), leaves
\* the loop for the copy question (any other answer), or starts exactly
\* one new inference call (the answer r); the number of inference calls of
\* a run that generated is one plus the number of r answers; and when
\* every call returns and an answer other than r is given at last, a run
\* that reached the loop exits.
C30_LoopProgress ==
  /\ [][pc = "ask"
          => \/ (pc' = "exited" /\ exitCode' = 0 /\ inferCalls' = inferCalls
                   /\ regens' = regens)
             \/ (pc' = "copyPrompt" /\ inferCalls' = inferCalls /\ regens' = regens)
             \/ (pc' = "generate" /\ regens' = regens + 1
                   /\ inferCalls' = inferCalls)]_vars
  /\ [][pc = "generate"
          => (pc' = "inferring" /\ inferCalls' = inferCalls + 1)]_vars
  /\ [][inferCalls' # inferCalls => pc = "generate"]_vars
  /\ []((inferCalls >= 1 /\ pc # "generate") => inferCalls = regens + 1)
  /\ [](pc = "generate" => inferCalls = regens)
  /\ (pc = "ask") ~> (pc = "exited")

\* the run has exited after an r answer and two inference calls
C30_Witness ==
  /\ pc = "exited" /\ exitCode = 0
  /\ regens = 1 /\ inferCalls = 2
  /\ userPrompts >= 2
=============================================================================
